---------------------------- MODULE Spec2Model ----------------------------
(***************************************************************************)
(* Verification model of modapp-resource: the ordered diff (patchDiff),    *)
(* ModelToCollection (the patchDiff version and the timer version) and     *)
(* CollectionWrapper.                                                      *)
(*                                                                         *)
(* Arrays are modelled as sequences; the source's 0-based index i is the   *)
(* sequence position i + 1.  Every index that is emitted, stored or        *)
(* compared in the model is the source's 0-based index.                    *)
(***************************************************************************)
EXTENDS Integers, Sequences, FiniteSets, TLC

(***************************************************************************)
(* Bounds of the model.                                                    *)
(***************************************************************************)
\* longest array handed to patchDiff
MaxLen == 3
\* number of distinct array elements handed to patchDiff
NumItems == 3

\* number of property keys a wrapped model can hold
NumKeys == 3
\* number of distinct property values; the last one is a plain object, the
\* others are observable (they have on/off and emit 'change')
NumVals == 3
\* largest sort rank a value can take
MaxRank == 2
\* number of calls the environment makes (mutations and public operations)
MaxOps == 3
\* largest number of properties one Model.set call changes
MaxSetKeys == 2
\* number of property keys of the model a ModifyModel or ModelWrapper wraps
NumProps == 2
\* number of distinct values such a property takes
NumPropVals == 2
\* largest number of items of a sub-collection of a JoinedCollection
MaxJcLen == 2
\* opt.begin and opt.end of a CollectionWrapper lie in -MaxBound..MaxBound
MaxBound == 4

VARIABLES
    \* ---- environment of a ModelToCollection ----
    modelA,      \* properties of the observable model A: key -> value or None
    valRank,     \* value -> the rank opt.compare reads from the value
    valHidden,   \* value -> the flag opt.filter reads from the value
    bus,         \* event bus queue: notifications emitted and not yet delivered
    ops,         \* number of environment calls made
    \* ---- ModelToCollection instance ----
    optFilter,   \* opt.filter was given
    optCompare,  \* opt.compare was given (compares by rank, then key)
    mtcModel,    \* this._model: "A", "B" or "null"
    mtcListening,\* model on which this._onChange is registered for 'change'
    mtcList,     \* this._list
    mtcProps,    \* this._props: key -> container or NoCont
    mtcFiltered, \* this._filtered: key -> container or NoCont
    mtcSubs,     \* containers o whose o.cb is registered on o.value
    mtcSortTimeout,  \* this.sortTimeout is set (timer version)
    mtcFilteredNull, \* this._filtered is null (timer version, after dispose)
    mtcTimerTasks,   \* setTimeout tasks scheduled and not yet run (timer version)
    \* ---- CollectionWrapper instance and its source collection ----
    optMap,      \* opt.map was given
    optBegin,    \* opt.begin: <<>> when not given, else <<n>>
    optEnd,      \* opt.end: <<>> when not given, else <<n>>
    cwSource,    \* the items of the wrapped collection, in order
    cwList,      \* this._list: containers [m, f]
    cwSubs,      \* items on which this._onChange is registered for 'change'
    cwListening, \* this._onAdd / this._onRemove are registered on the source
    cwCollection,\* this._collection is set
    cwWeakMap,   \* this._weakMap: item -> mapped model or None
    cwHasWeakMap,\* this._weakMap is set
    \* ---- observer of the ModelToCollection ----
    mirror,      \* array the observer patches with the add/remove events
    mirrorOk,    \* every event so far had a valid index for the mirror
    emitted,     \* add/remove events emitted by the last step
    lastOp,      \* what the last step was
    \* ---- patchDiff call in progress ----
    pdA,        \* argument a (before array)
    pdB,        \* argument b (after array)
    pdPc,       \* "call" | "emit" | "done"
    pdQueue,    \* callbacks the call still has to make, in emission order
    pdWork,     \* working copy of a the callbacks are applied to
    pdValid,    \* every callback so far had a valid index
    pdRemoves,  \* number of onRemove callbacks made
    pdAdds,     \* number of onAdd callbacks made
    \* ---- _indexOfItem call ----
    optTies,    \* opt.compare compares the ranks only: equal ranks compare equal
    ixKey,      \* argument k
    ixItem,     \* argument item
    ixPc,       \* "idle" | "call" | "done"
    ixResult,   \* the index returned
    \* ---- ModifyModel instance and its underlying model ----
    mmModel,         \* the properties of the underlying model
    mmModifiedOnNew, \* opt.modifiedOnNew
    mmProps,         \* this[k], the ModifyModel's own properties
    mmModification,  \* this._modification: key -> value or Absent
    mmIsModified,    \* this.isModified
    mmBus,           \* 'change' events of the underlying model not yet delivered
    mmArg,           \* the prop the last reset was called with
    mmThrown,        \* the last call has thrown
    \* ---- ModelWrapper instance ----
    mwMap,       \* opt.map was given
    mwKeyMap,    \* opt.keyMap was given
    mwModel,     \* this._model: "A", "B" or "null"
    mwListening, \* model on which this._onChange is registered for 'change'
    mwItems,     \* this._items: key -> container [value, mkey, id] or MwNoItem
    mwSubs,      \* containers c whose c.cb is registered on c.value
    mwProps,     \* this._props: mapped key -> value or None
    \* ---- Collection instance ----
    colCompare,  \* opt.compare was given (sortOrderCompare)
    colList,     \* the SortedMap's list: the items in order
    colMap,      \* the ids the SortedMap's map holds
    \* ---- CollectionToModel instance ----
    ctmMap,        \* opt.map was given
    ctmCollection, \* this._collection: "C" or "null"
    ctmListening,  \* this._onAdd / this._onRemove are registered on it
    ctmProps,      \* this._props: key -> value or None
    \* ---- JoinedCollection instance ----
    jcInput,     \* the collections handed to the constructor
    jcSubs,      \* this._subs
    jcPc,        \* "new", "ready" or "thrown"
    jcResult     \* what the last read returned

pdVars == <<pdA, pdB, pdPc, pdQueue, pdWork, pdValid, pdRemoves, pdAdds>>

envVars == <<modelA, valRank, valHidden, bus, ops>>

mtcVars == <<optFilter, optCompare, mtcModel, mtcListening, mtcList, mtcProps,
             mtcFiltered, mtcSubs, mtcSortTimeout, mtcFilteredNull,
             mtcTimerTasks>>

cwVars == <<optMap, optBegin, optEnd, cwSource, cwList, cwSubs, cwListening, cwCollection,
            cwWeakMap, cwHasWeakMap>>

obsVars == <<mirror, mirrorOk, emitted, lastOp>>

ixVars == <<optTies, ixKey, ixItem, ixPc, ixResult>>

\* the variables of the components specified on their own further down
mmVars == <<mmModel, mmModifiedOnNew, mmProps, mmModification, mmIsModified,
            mmBus, mmArg, mmThrown>>

mwVars == <<mwMap, mwKeyMap, mwModel, mwListening, mwItems, mwSubs, mwProps>>

colVars == <<colCompare, colList, colMap>>

ctmVars == <<ctmMap, ctmCollection, ctmListening, ctmProps>>

jcVars == <<jcInput, jcSubs, jcPc, jcResult>>

otherVars == <<ixVars, mmVars, mwVars, colVars, ctmVars, jcVars>>

vars == <<envVars, mtcVars, obsVars, pdVars, cwVars, otherVars>>

(***************************************************************************)
(* Array helpers (Array.prototype.splice / slice on sequences).            *)
(***************************************************************************)
\* arr.slice(from, to), 0-based, half open
Slice(arr, from, to) == SubSeq(arr, from + 1, to)

\* arr.splice(idx, 0, x)
SpliceIn(arr, idx, x) ==
    SubSeq(arr, 1, idx) \o <<x>> \o SubSeq(arr, idx + 1, Len(arr))

\* arr.splice(idx, 1)
SpliceOut(arr, idx) ==
    SubSeq(arr, 1, idx) \o SubSeq(arr, idx + 2, Len(arr))

Max(x, y) == IF x >= y THEN x ELSE y

RECURSIVE SeqsUpTo(_, _)
\* all sequences over S of length at most n
SeqsUpTo(S, n) ==
    IF n = 0 THEN {<<>>}
    ELSE LET shorter == SeqsUpTo(S, n - 1)
         IN  shorter \cup {Append(q, x) : q \in {t \in shorter : Len(t) = n - 1}, x \in S}

(***************************************************************************)
(* patchDiff (utils).  The callbacks are returned as the sequence of calls *)
(* the function makes, in the order it makes them.                         *)
(***************************************************************************)
RECURSIVE TrimStart(_, _, _)
\* while (s < m && s < n && a[s] === b[s]) s++
TrimStart(a, b, s) ==
    IF s < Len(a) /\ s < Len(b) /\ a[s + 1] = b[s + 1]
    THEN TrimStart(a, b, s + 1)
    ELSE s

RECURSIVE TrimEnd(_, _, _, _, _)
\* while (s < m && s < n && a[m - 1] === b[n - 1]) { m--; n--; }
TrimEnd(a, b, s, m, n) ==
    IF s < m /\ s < n /\ a[m] = b[n]
    THEN TrimEnd(a, b, s, m - 1, n - 1)
    ELSE <<m, n>>

\* (mutation) the matrix is left at its initial zeroes
LcsMatrixZero(aa, bb) == [i \in 0..Len(aa), j \in 0..Len(bb) |-> 0]

\* the LCS matrix c of the trimmed arrays: c[i][j] for 0 <= i <= m, 0 <= j <= n
LcsMatrix(aa, bb) ==
    LET c[i \in 0..Len(aa), j \in 0..Len(bb)] ==
            IF i = 0 \/ j = 0 THEN 0
            ELSE IF aa[i] = bb[j] THEN c[i - 1, j - 1] + 1
            ELSE Max(c[i, j - 1], c[i - 1, j])
    IN  c

RECURSIVE Backtrack(_, _, _, _, _, _, _, _, _, _)
\* the while (true) loop: walks the matrix from (m, n) back to (0, 0), calling
\* onRemove at once and collecting the adds as [n, idx, r]
Backtrack(aa, bb, c, s, i, j, idx, r, adds, removes) ==
    IF i > 0 /\ j > 0 /\ aa[i] = bb[j]
    THEN Backtrack(aa, bb, c, s, i - 1, j - 1, idx - 1, r, adds, removes)
    ELSE IF j > 0 /\ (i = 0 \/ c[i, j - 1] >= c[i - 1, j])
    THEN Backtrack(aa, bb, c, s, i, j - 1, idx, r,
                   Append(adds, <<j - 1, idx, r>>), removes)
    ELSE IF i > 0 /\ (j = 0 \/ c[i, j - 1] < c[i - 1, j])
    THEN Backtrack(aa, bb, c, s, i - 1, j, idx - 1, r + 1, adds,
                   Append(removes, [cb |-> "remove", item |-> aa[i],
                                    pos |-> (i - 1) + s, idx |-> idx - 1]))
    ELSE [adds |-> adds, removes |-> removes, r |-> r]

\* (mutation) the adds already made are not counted
AddIdxNoEarlierAdds(idx, r, j, len, i) == idx - r + j

\* (mutation) the removes made in front of the add are not subtracted
AddIdxNoRemoves(idx, r, j, len, i) == idx + len - i

\* the index onAdd is called with: idx - r + j + len - i
AddIdx(idx, r, j, len, i) == idx - r + j + len - i

\* the final loop: for (i = len; i >= 0; i--) onAdd(bb[n], n + s, ...)
DoAdds(bb, s, adds, r) ==
    LET len == Len(adds) - 1
    IN  [t \in 1..Len(adds) |->
            LET i == len - (t - 1)
                e == adds[i + 1]
            IN  [cb |-> "add", item |-> bb[e[1] + 1], pos |-> e[1] + s,
                 idx |-> AddIdx(e[2], r, e[3], len, i)]]

\* trimming that cuts the matches off the arrays it was given
PD_trimInPlace(a, b) ==
    LET s  == TrimStart(a, b, 0)
        mn == TrimEnd(a, b, s, Len(a), Len(b))
    IN  [s |-> s, aa |-> Slice(a, s, mn[1]), bb |-> Slice(b, s, mn[2]),
         a |-> Slice(a, s, mn[1]), b |-> Slice(b, s, mn[2])]

\* the trimming of the matches at the start and the end: s, the arrays aa and
\* bb the matrix is built on (a.slice(s, m) and b.slice(s, n), or a and b
\* themselves when nothing is cut), and the arrays a and b as they are left
PD_trim(a, b) ==
    LET s  == TrimStart(a, b, 0)
        mn == TrimEnd(a, b, s, Len(a), Len(b))
    IN  [s |-> s, aa |-> Slice(a, s, mn[1]), bb |-> Slice(b, s, mn[2]),
         a |-> a, b |-> b]

\* patchDiff that calls onAdd for the collected adds before it walks the
\* matrix for the removes
patchDiffAddsFirst(a, b) ==
    LET s == TrimStart(a, b, 0)
    IN  IF s = Len(a) /\ s = Len(b) THEN <<>>
        ELSE LET t  == PD_trim(a, b)
                 c  == LcsMatrix(t.aa, t.bb)
                 w  == Backtrack(t.aa, t.bb, c, s, Len(t.aa), Len(t.bb),
                                 Len(t.aa) + s, 0, <<>>, <<>>)
             IN  DoAdds(t.bb, s, w.adds, w.r) \o w.removes

patchDiff(a, b) ==
    LET s == TrimStart(a, b, 0)
    IN  IF s = Len(a) /\ s = Len(b) THEN <<>>
        ELSE LET t  == PD_trim(a, b)
                 aa == t.aa
                 bb == t.bb
                 c  == LcsMatrix(aa, bb)
                 w  == Backtrack(aa, bb, c, s, Len(aa), Len(bb),
                                 Len(aa) + s, 0, <<>>, <<>>)
             IN  w.removes \o DoAdds(bb, s, w.adds, w.r)

(***************************************************************************)
(* A patchDiff call whose callbacks patch a working copy of a.             *)
(***************************************************************************)
Items == 1..NumItems

\* there is no CollectionWrapper
NoWrapper ==
    /\ optMap = FALSE /\ optBegin = <<>> /\ optEnd = <<>>
    /\ cwSource = <<>> /\ cwList = <<>> /\ cwSubs = {}
    /\ cwListening = FALSE /\ cwCollection = FALSE /\ cwWeakMap = <<>>
    /\ cwHasWeakMap = FALSE

\* there is no _indexOfItem call on its own
NoIndexOfCall ==
    /\ optTies = FALSE /\ ixKey = 0 /\ ixItem = 0 /\ ixPc = "idle"
    /\ ixResult = -1

\* there is no ModifyModel
NoModifyModel ==
    /\ mmModel = <<>> /\ mmModifiedOnNew = FALSE /\ mmProps = <<>>
    /\ mmModification = <<>> /\ mmIsModified = FALSE /\ mmBus = <<>>
    /\ mmArg = 0 /\ mmThrown = FALSE

\* there is no ModelWrapper
NoModelWrapper ==
    /\ mwMap = FALSE /\ mwKeyMap = FALSE /\ mwModel = "null"
    /\ mwListening = "null" /\ mwItems = <<>> /\ mwSubs = {} /\ mwProps = <<>>

\* there is no Collection
NoCollection == colCompare = FALSE /\ colList = <<>> /\ colMap = {}

\* there is no CollectionToModel
NoCollectionToModel ==
    /\ ctmMap = FALSE /\ ctmCollection = "null" /\ ctmListening = FALSE
    /\ ctmProps = <<>>

\* there is no JoinedCollection
NoJoinedCollection ==
    jcInput = <<>> /\ jcSubs = <<>> /\ jcPc = "idle" /\ jcResult = <<>>

\* the collections specified on their own are at rest
CollectionsAtRest == NoCollection /\ NoCollectionToModel /\ NoJoinedCollection

\* the components specified on their own are at rest
OthersAtRest ==
    NoIndexOfCall /\ NoModifyModel /\ NoModelWrapper /\ CollectionsAtRest

\* the variables of the other components stay at rest during a patchDiff run
RestOfDiff ==
    /\ NoWrapper
    /\ OthersAtRest
    /\ mtcSortTimeout = FALSE /\ mtcFilteredNull = FALSE /\ mtcTimerTasks = 0
    /\ modelA = <<>> /\ valRank = <<>> /\ valHidden = <<>> /\ bus = <<>> /\ ops = 0
    /\ optFilter = FALSE /\ optCompare = FALSE /\ mtcModel = "null"
    /\ mtcListening = "null" /\ mtcList = <<>> /\ mtcProps = <<>>
    /\ mtcFiltered = <<>> /\ mtcSubs = {}
    /\ mirror = <<>> /\ mirrorOk = TRUE /\ emitted = <<>> /\ lastOp = "init"

PdInit ==
    /\ RestOfDiff
    /\ pdA \in SeqsUpTo(Items, MaxLen)
    /\ pdB \in SeqsUpTo(Items, MaxLen)
    /\ pdPc = "call"
    /\ pdQueue = <<>>
    /\ pdWork = pdA
    /\ pdValid = TRUE
    /\ pdRemoves = 0
    /\ pdAdds = 0

\* patchDiff(a, b, onAdd, onRemove) is entered
PdCall ==
    /\ pdPc = "call"
    /\ pdQueue' = patchDiff(pdA, pdB)
    /\ \E t \in {PD_trim(pdA, pdB)} : pdA' = t.a /\ pdB' = t.b
    /\ pdPc' = "emit"
    /\ UNCHANGED <<pdWork, pdValid, pdRemoves, pdAdds,
                 envVars, mtcVars, obsVars, cwVars, otherVars>>

\* onRemove(item, m, idx): the observer deletes the element at idx
PdOnRemove ==
    /\ pdPc = "emit"
    /\ pdQueue # <<>>
    /\ Head(pdQueue).cb = "remove"
    /\ LET e == Head(pdQueue)
           ok == e.idx >= 0 /\ e.idx < Len(pdWork) /\ pdWork[e.idx + 1] = e.item
       IN  /\ pdValid' = (pdValid /\ ok)
           /\ pdWork' = IF e.idx >= 0 /\ e.idx < Len(pdWork)
                        THEN SpliceOut(pdWork, e.idx) ELSE pdWork
    /\ pdRemoves' = pdRemoves + 1
    /\ pdQueue' = Tail(pdQueue)
    /\ UNCHANGED <<pdA, pdB, pdPc, pdAdds,
                 envVars, mtcVars, obsVars, cwVars, otherVars>>

\* onAdd(item, n, idx): the observer inserts item at idx
PdOnAdd ==
    /\ pdPc = "emit"
    /\ pdQueue # <<>>
    /\ Head(pdQueue).cb = "add"
    /\ LET e == Head(pdQueue)
           ok == e.idx >= 0 /\ e.idx <= Len(pdWork)
       IN  /\ pdValid' = (pdValid /\ ok)
           /\ pdWork' = IF ok THEN SpliceIn(pdWork, e.idx, e.item) ELSE pdWork
    /\ pdAdds' = pdAdds + 1
    /\ pdQueue' = Tail(pdQueue)
    /\ UNCHANGED <<pdA, pdB, pdPc, pdRemoves,
                 envVars, mtcVars, obsVars, cwVars, otherVars>>

\* patchDiff returns
PdReturn ==
    /\ pdPc = "emit"
    /\ pdQueue = <<>>
    /\ pdPc' = "done"
    /\ UNCHANGED <<pdA, pdB, pdQueue, pdWork, pdValid, pdRemoves, pdAdds,
                 envVars, mtcVars, obsVars, cwVars, otherVars>>

PdNext == PdCall \/ PdOnRemove \/ PdOnAdd \/ PdReturn

SpecDiff == PdInit /\ [][PdNext]_vars

(***************************************************************************)
(* Claims about patchDiff.                                                 *)
(***************************************************************************)
RECURSIVE Pick(_, _, _)
\* the subsequence of x at the positions S, from position k on
Pick(x, S, k) ==
    IF k > Len(x) THEN <<>>
    ELSE IF k \in S THEN <<x[k]>> \o Pick(x, S, k + 1)
    ELSE Pick(x, S, k + 1)

SubsequencesOf(x) == {Pick(x, S, 1) : S \in SUBSET (1..Len(x))}

\* length of a longest common subsequence, by definition
LcsLength(x, y) ==
    LET common == SubsequencesOf(x) \cap SubsequencesOf(y)
    IN  CHOOSE l \in 0..Len(x) :
            /\ \E q \in common : Len(q) = l
            /\ \A q \in common : Len(q) <= l

\* C1: once patchDiff(a, b) has returned, the working copy of a that every
\* callback was applied to in emission order is equal to b.
C1_RoundTrip == pdPc = "done" => pdWork = pdB

C1_Witness ==
    /\ pdPc = "done"
    /\ pdRemoves >= 1
    /\ pdAdds >= 2
    /\ pdWork = pdB
    /\ \E i, j \in 1..Len(pdA) : i # j /\ pdA[i] = pdA[j]

\* C4: every callback made so far carried an index valid against the working
\* copy as it stood just before the callback: a remove addresses the removed
\* item, an add lies within 0..length.
C4_IndexValid == pdValid

C4_Witness ==
    /\ pdPc = "emit"
    /\ pdValid
    /\ pdRemoves >= 2
    /\ pdAdds >= 1
    /\ pdQueue # <<>>

\* C5: the edit script is minimal: |a| - L removes and |b| - L adds, L the
\* length of a longest common subsequence; none at all when a equals b.
C5_Minimal ==
    pdPc = "done" =>
        LET L == LcsLength(pdA, pdB)
        IN  /\ pdRemoves = Len(pdA) - L
            /\ pdAdds = Len(pdB) - L
            /\ (pdA = pdB => pdRemoves + pdAdds = 0)

C5_Witness ==
    /\ pdPc = "done"
    /\ LcsLength(pdA, pdB) = 2
    /\ pdRemoves = 1
    /\ pdAdds = 1
    /\ pdA[1] # pdB[1]
    /\ pdA[Len(pdA)] # pdB[Len(pdB)]

C24_RemovesBeforeAdds ==
    pdAdds > 0 => \A i \in 1..Len(pdQueue) : pdQueue[i].cb # "remove"

\* the first onAdd of a call with two removes was made, another add follows
C24_Witness ==
    /\ pdPc = "emit"
    /\ pdAdds = 1
    /\ pdRemoves = 2
    /\ pdQueue # <<>>
    /\ Head(pdQueue).cb = "add"

(***************************************************************************)
(* Environment of a ModelToCollection: the wrapped models, the property    *)
(* values and the event bus.                                               *)
(*                                                                         *)
(* Model A is a Model (it has on/off and emits 'change' through the event  *)
(* bus); model B is a plain object with fixed properties.  The event bus   *)
(* queues an event for the handlers registered when it is emitted and      *)
(* calls them later, in emission order.                                    *)
(***************************************************************************)
Keys == 1..NumKeys
Values == 1..NumVals
\* undefined (a missing property)
None == 0
\* no container (a missing entry of this._props / this._filtered)
NoCont == [key |-> 0, value |-> 0, id |-> 0]

\* typeof m === 'object' && m !== null && typeof m.on == 'function'
IsObservable(v) == v \in Values /\ v # NumVals

\* the values property k takes: value k and the value after it
KeyValues(k) == {v \in Values : v = ((k - 1) % NumVals) + 1 \/ v = (k % NumVals) + 1}

\* the properties of the plain object B
ModelB == [k \in Keys |-> IF k = 1 THEN 2 ELSE IF k = 2 THEN NumVals ELSE None]

\* getProps(m)
getProps(m) == IF m = "A" THEN modelA ELSE IF m = "B" THEN ModelB
               ELSE [k \in Keys |-> None]

\* the model has on/off
ModelHasOn(m) == m = "A"

\* opt.filter: (k, v) => !v.hidden
Filter(k, v) == ~valHidden[v]

\* !this._filter || this._filter(k, v)
Show(k, v) == ~optFilter \/ Filter(k, v)

\* this._compare: opt.compare compares the values' ranks, and then the keys
\* unless it is one that compares the ranks only; the default compares the
\* keys
Compare(a, b) ==
    IF optCompare /\ valRank[a.value] # valRank[b.value]
    THEN valRank[a.value] - valRank[b.value]
    ELSE IF optCompare /\ optTies THEN 0
    ELSE a.key - b.key

RECURSIVE InsertSorted(_, _)
\* x put after the last element of the sorted array that does not compare
\* greater than x
InsertSorted(arr, x) ==
    IF arr = <<>> THEN <<x>>
    ELSE IF Compare(arr[Len(arr)], x) <= 0 THEN Append(arr, x)
    ELSE Append(InsertSorted(SubSeq(arr, 1, Len(arr) - 1), x), arr[Len(arr)])

RECURSIVE Sort(_)
\* Array.prototype.sort(this._compare): a stable sort
Sort(arr) ==
    IF arr = <<>> THEN <<>>
    ELSE InsertSorted(Sort(SubSeq(arr, 1, Len(arr) - 1)), arr[Len(arr)])

RECURSIVE BinarySearchLoop(_, _, _, _)
\* array.binarySearch: while (l <= h) { m = (l + h) >>> 1; ... } return ~l
BinarySearchLoop(arr, item, l, h) ==
    IF l > h THEN -l - 1
    ELSE LET m == (l + h) \div 2
             c == Compare(arr[m + 1], item)
         IN  IF c < 0 THEN BinarySearchLoop(arr, item, m + 1, h)
             ELSE IF c > 0 THEN BinarySearchLoop(arr, item, l, m - 1)
             ELSE m

\* array.binarySearch(arr, item, compare): the index of an element comparing
\* equal to item, or the bitwise complement of the insert position
binarySearch(arr, item) == BinarySearchLoop(arr, item, 0, Len(arr) - 1)

\* the containers an array holds
Elems(arr) == {arr[i] : i \in 1..Len(arr)}

\* the containers a key table holds
Conts(tab) == {tab[k] : k \in DOMAIN tab} \ {NoCont}

\* the containers a handler waiting in the event bus has captured
BusConts == {bus[i].o : i \in {j \in 1..Len(bus) : bus[j].type = "item"}}

(***************************************************************************)
(* ModelToCollection, the version that sends its events through patchDiff  *)
(* (src/unnamed/part_004).  A handler is a function of the instance state  *)
(*   st = [model, listening, list, props, filtered, subs, old, ev]         *)
(* where old is the handler's oldList and ev the events it has emitted.    *)
(***************************************************************************)
\* a new object { key: k, value: v }: its identity id is one no container
\* with this key and value that is still referenced anywhere has
NewCont(st, k, v) ==
    LET live == Elems(st.list) \cup Elems(st.old) \cup Conts(st.props)
                \cup Conts(st.filtered) \cup st.subs \cup BusConts
        used == {o.id : o \in {x \in live : x.key = k /\ x.value = v}}
    IN  [key |-> k, value |-> v,
         id |-> CHOOSE n \in 1..(Cardinality(used) + 1) :
                    n \notin used /\ \A m \in 1..(n - 1) : m \in used]

\* _insertIdx(o)
M2C_insertIdx(list, o) ==
    LET idx == binarySearch(list, o)
    IN  IF idx < 0 THEN -idx - 1 ELSE idx

RECURSIVE M2C_indexOfKeyFrom(_, _, _)
\* _indexOfKey(k): for (i = length - 1; i >= 0; i--)
M2C_indexOfKeyFrom(list, k, i) ==
    IF i < 0 THEN -1
    ELSE IF list[i + 1].key = k THEN i
    ELSE M2C_indexOfKeyFrom(list, k, i - 1)

M2C_indexOfKey(list, k) == M2C_indexOfKeyFrom(list, k, Len(list) - 1)

\* _indexOfItem(k, item) that trusts the binary search
M2C_indexOfItemNoScan(list, k, item) ==
    LET idx == binarySearch(list, [key |-> k, value |-> item, id |-> 0])
    IN  IF idx >= 0 THEN idx ELSE -1

\* _indexOfItem(k, item)
M2C_indexOfItem(list, k, item) ==
    LET idx == binarySearch(list, [key |-> k, value |-> item, id |-> 0])
    IN  IF idx >= 0 /\ list[idx + 1].key = k THEN idx
        ELSE M2C_indexOfKey(list, k)

\* _listenItem(o)
M2C_listenItem(st, o) ==
    [st EXCEPT !.props[o.key] = o,
               !.subs = IF IsObservable(o.value) THEN @ \cup {o} ELSE @]

\* _unlistenItem(o)
M2C_unlistenItem(st, o) == [st EXCEPT !.subs = @ \ {o}]

\* _addItem(k, item)
M2C_addItem(st, k, item) ==
    LET o == NewCont(st, k, item)
        s1 == M2C_listenItem(st, o)
    IN  IF Show(k, item)
        THEN [s1 EXCEPT !.list = SpliceIn(@, M2C_insertIdx(@, o), o)]
        ELSE [s1 EXCEPT !.filtered[k] = o]

\* _removeItem(k) without the splice of this._list
M2C_removeItemKeepList(st, k) ==
    LET o == st.props[k]
    IN  IF o = NoCont THEN st
        ELSE [M2C_unlistenItem([st EXCEPT !.props[k] = NoCont], o)
                 EXCEPT !.filtered[k] = NoCont]

\* _removeItem(k)
M2C_removeItem(st, k) ==
    LET o == st.props[k]
    IN  IF o = NoCont THEN st
        ELSE LET s1 == M2C_unlistenItem([st EXCEPT !.props[k] = NoCont], o)
             IN  IF s1.filtered[k] # NoCont
                 THEN [s1 EXCEPT !.filtered[k] = NoCont]
                 ELSE LET idx == M2C_indexOfItem(s1.list, k, o.value)
                      IN  IF idx < 0 THEN s1
                          ELSE [s1 EXCEPT !.list = SpliceOut(@, idx)]

\* _onItemChange(o) that shows a hidden item and leaves it in this._filtered
M2C_onItemChangeKeepFiltered(st, o) ==
    LET k == o.key
        v == o.value
        show == Show(k, v)
    IN  IF st.filtered[k] # NoCont
        THEN IF show /\ M2C_indexOfKey(st.list, k) < 0
             THEN [st EXCEPT !.list = SpliceIn(@, M2C_insertIdx(@, o), o)]
             ELSE st
        ELSE IF ~show
             THEN LET idx == M2C_indexOfItem(st.list, k, v)
                  IN  IF idx < 0 THEN st
                      ELSE [st EXCEPT !.list = SpliceOut(@, idx),
                                      !.filtered[k] = o]
             ELSE st

\* _onItemChange(o) that moves the item whatever the filter says
M2C_onItemChangeToggle(st, o) ==
    IF st.filtered[o.key] # NoCont
    THEN [st EXCEPT !.filtered[o.key] = NoCont,
                    !.list = SpliceIn(@, M2C_insertIdx(@, o), o)]
    ELSE LET idx == M2C_indexOfKey(st.list, o.key)
         IN  IF idx < 0 THEN st
             ELSE [st EXCEPT !.list = SpliceOut(@, idx), !.filtered[o.key] = o]

\* _onItemChange(o)
M2C_onItemChange(st, o) ==
    LET k == o.key
        v == o.value
        show == Show(k, v)
    IN  IF st.filtered[k] # NoCont
        THEN IF show
             THEN [st EXCEPT !.filtered[k] = NoCont,
                             !.list = SpliceIn(@, M2C_insertIdx(@, o), o)]
             ELSE st
        ELSE IF ~show
             THEN LET idx == M2C_indexOfItem(st.list, k, v)
                  IN  IF idx < 0 THEN st
                      ELSE [st EXCEPT !.list = SpliceOut(@, idx),
                                      !.filtered[k] = o]
             ELSE st

\* the event the view emits for one patchDiff callback
ViewEvent(e) == [event |-> e.cb, item |-> e.item.value, idx |-> e.idx]

\* _sendSyncEvents(oldList, newList)
M2C_sendSyncEvents(st, oldList, newList) ==
    LET calls == patchDiff(oldList, newList)
    IN  [st EXCEPT !.ev = @ \o [i \in 1..Len(calls) |-> ViewEvent(calls[i])]]

Min(S) == CHOOSE x \in S : \A y \in S : x <= y

RECURSIVE M2C_onChangeLoop(_, _, _)
\* _onChange: for (let k in change) { ... }
M2C_onChangeLoop(st, p, keys) ==
    IF keys = {} THEN st
    ELSE LET k  == Min(keys)
             nv == p[k]
             o  == st.props[k]
             ov == IF o # NoCont THEN o.value ELSE None
             s1 == IF ov = nv THEN st
                   ELSE IF ov = None THEN M2C_addItem(st, k, nv)
                   ELSE IF nv = None THEN M2C_removeItem(st, k)
                   ELSE M2C_addItem(M2C_removeItem(st, k), k, nv)
         IN  M2C_onChangeLoop(s1, p, keys \ {k})

RECURSIVE M2C_onChangeLoopEventOld(_, _, _, _)
\* the loop of _onChange with the old value taken from the notification
M2C_onChangeLoopEventOld(st, p, change, keys) ==
    IF keys = {} THEN st
    ELSE LET k  == Min(keys)
             nv == p[k]
             ov == change[k]
             s1 == IF ov = nv THEN st
                   ELSE IF ov = None THEN M2C_addItem(st, k, nv)
                   ELSE IF nv = None THEN M2C_removeItem(st, k)
                   ELSE M2C_addItem(M2C_removeItem(st, k), k, nv)
         IN  M2C_onChangeLoopEventOld(s1, p, change, keys \ {k})

\* _onChange(change, m) that trusts the old values of the notification
M2C_onChangeEventOld(st, change, m) ==
    IF m # st.model THEN st
    ELSE LET oldList == st.list
             s1 == [st EXCEPT !.old = oldList, !.list = Sort(@)]
             s2 == M2C_onChangeLoopEventOld(s1, getProps(m), change, DOMAIN change)
         IN  M2C_sendSyncEvents(s2, oldList, s2.list)

\* _onChange(change, m) that takes oldList after the sort
M2C_onChangeOldSorted(st, change, m) ==
    IF m # st.model THEN st
    ELSE LET s1 == [st EXCEPT !.list = Sort(@), !.old = Sort(st.list)]
             s2 == M2C_onChangeLoop(s1, getProps(m), DOMAIN change)
         IN  M2C_sendSyncEvents(s2, s1.old, s2.list)

\* _onChange(change, m)
M2C_onChange(st, change, m) ==
    IF m # st.model THEN st
    ELSE LET oldList == st.list
             s1 == [st EXCEPT !.old = oldList, !.list = Sort(@)]
             s2 == M2C_onChangeLoop(s1, getProps(m), DOMAIN change)
         IN  M2C_sendSyncEvents(s2, oldList, s2.list)

\* the callback o.cb without the sort
M2C_itemCbNoSort(st, o) ==
    IF st.props[o.key] # o THEN st
    ELSE LET oldList == st.list
             s2 == M2C_onItemChange([st EXCEPT !.old = oldList], o)
         IN  M2C_sendSyncEvents(s2, oldList, s2.list)

\* the callback o.cb that _listenItem registers on an observable value
M2C_itemCb(st, o) ==
    IF st.props[o.key] # o THEN st
    ELSE LET oldList == st.list
             s1 == [st EXCEPT !.old = oldList, !.list = Sort(@)]
             s2 == M2C_onItemChange(s1, o)
         IN  M2C_sendSyncEvents(s2, oldList, s2.list)

RECURSIVE M2C_refreshLoop(_, _)
\* refresh: for (let k in this._props) this._onItemChange(this._props[k])
M2C_refreshLoop(st, keys) ==
    IF keys = {} THEN st
    ELSE LET k == Min(keys)
         IN  M2C_refreshLoop(M2C_onItemChange(st, st.props[k]), keys \ {k})

\* refresh(key) without the sort of this._list at its start
M2C_refreshNoSort(st, key) ==
    IF st.model = "null" THEN st
    ELSE LET oldList == st.list
             s1 == [st EXCEPT !.old = oldList]
             s2 == IF key # None
                   THEN IF s1.props[key] # NoCont
                        THEN M2C_onItemChange(s1, s1.props[key])
                        ELSE s1
                   ELSE M2C_refreshLoop(s1, {k \in Keys : s1.props[k] # NoCont})
         IN  M2C_sendSyncEvents(s2, oldList, s2.list)

\* refresh(key); key None is refresh()
M2C_refresh(st, key) ==
    IF st.model = "null" THEN st
    ELSE LET oldList == st.list
             s1 == [st EXCEPT !.old = oldList, !.list = Sort(@)]
             s2 == IF key # None
                   THEN IF s1.props[key] # NoCont
                        THEN M2C_onItemChange(s1, s1.props[key])
                        ELSE s1
                   ELSE M2C_refreshLoop(s1, {k \in Keys : s1.props[k] # NoCont})
         IN  M2C_sendSyncEvents(s2, oldList, s2.list)

RECURSIVE M2C_setModelLoop(_, _, _)
\* setModel: for (let k in p) { ... }
M2C_setModelLoop(st, p, keys) ==
    IF keys = {} THEN st
    ELSE LET k  == Min(keys)
             v  == p[k]
             o  == NewCont(st, k, v)
             s1 == IF Show(k, v) THEN [st EXCEPT !.list = Append(@, o)]
                   ELSE [st EXCEPT !.filtered[k] = o]
         IN  M2C_setModelLoop(M2C_listenItem(s1, o), p, keys \ {k})

\* setModel(model, noEvents) that reads oldList after it has reset this._list
M2C_setModelOldEmpty(st, model, noEvents) ==
    IF model = st.model THEN st
    ELSE LET s1 == [st EXCEPT !.subs = @ \ Conts(st.props)]
             s2 == [s1 EXCEPT !.listening = IF ModelHasOn(model) THEN model ELSE "null",
                              !.model = model,
                              !.old = <<>>,
                              !.list = <<>>,
                              !.props = [k \in Keys |-> NoCont],
                              !.filtered = [k \in Keys |-> NoCont]]
             p  == getProps(model)
             s3 == IF model # "null"
                   THEN LET s == M2C_setModelLoop(s2, p, {k \in Keys : p[k] # None})
                        IN  [s EXCEPT !.list = Sort(@)]
                   ELSE s2
         IN  IF noEvents THEN s3 ELSE M2C_sendSyncEvents(s3, s3.old, s3.list)

\* setModel(model, noEvents) without the _unlistenItem loop over this._props
M2C_setModelNoUnlisten(st, model, noEvents) ==
    IF model = st.model THEN st
    ELSE LET s2 == [st EXCEPT !.listening = IF ModelHasOn(model) THEN model ELSE "null",
                              !.model = model,
                              !.old = st.list,
                              !.list = <<>>,
                              !.props = [k \in Keys |-> NoCont],
                              !.filtered = [k \in Keys |-> NoCont]]
             p  == getProps(model)
             s3 == IF model # "null"
                   THEN LET s == M2C_setModelLoop(s2, p, {k \in Keys : p[k] # None})
                        IN  [s EXCEPT !.list = Sort(@)]
                   ELSE s2
         IN  IF noEvents THEN s3 ELSE M2C_sendSyncEvents(s3, s3.old, s3.list)

\* setModel(model, noEvents)
M2C_setModel(st, model, noEvents) ==
    IF model = st.model THEN st
    ELSE LET s1 == [st EXCEPT !.subs = @ \ Conts(st.props)]
             s2 == [s1 EXCEPT !.listening = IF ModelHasOn(model) THEN model ELSE "null",
                              !.model = model,
                              !.old = st.list,
                              !.list = <<>>,
                              !.props = [k \in Keys |-> NoCont],
                              !.filtered = [k \in Keys |-> NoCont]]
             p  == getProps(model)
             s3 == IF model # "null"
                   THEN LET s == M2C_setModelLoop(s2, p, {k \in Keys : p[k] # None})
                        IN  [s EXCEPT !.list = Sort(@)]
                   ELSE s2
         IN  IF noEvents THEN s3 ELSE M2C_sendSyncEvents(s3, s3.old, s3.list)

\* dispose()
M2C_dispose(st) == M2C_setModel(st, "null", TRUE)

\* toArray()
toArray(list) == [i \in 1..Len(list) |-> list[i].value]

(***************************************************************************)
(* The observer: it keeps a mirror array, which starts as toArray(), and   *)
(* applies every add and remove event to it in the order of emission.      *)
(***************************************************************************)
RECURSIVE Replay(_, _)
\* the mirror after the events, and whether every index was valid for it
Replay(m, evs) ==
    IF evs = <<>> THEN m
    ELSE LET e == Head(evs)
         IN  IF e.event = "remove"
             THEN IF e.idx >= 0 /\ e.idx < Len(m.arr) /\ m.arr[e.idx + 1] = e.item
                  THEN Replay([m EXCEPT !.arr = SpliceOut(@, e.idx)], Tail(evs))
                  ELSE Replay([m EXCEPT !.ok = FALSE], Tail(evs))
             ELSE IF e.idx >= 0 /\ e.idx <= Len(m.arr)
                  THEN Replay([m EXCEPT !.arr = SpliceIn(@, e.idx, e.item)], Tail(evs))
                  ELSE Replay([m EXCEPT !.ok = FALSE], Tail(evs))

\* the instance state the handlers work on
MtcState ==
    [model |-> mtcModel, listening |-> mtcListening, list |-> mtcList,
     props |-> mtcProps, filtered |-> mtcFiltered, subs |-> mtcSubs,
     old |-> <<>>, ev |-> <<>>]

\* the state a handler leaves, and the observer patching its mirror; with
\* resync the observer reads toArray() again instead
Commit(st, op, resync) ==
    \E s \in {st} :
       /\ mtcModel' = s.model
       /\ mtcListening' = s.listening
       /\ mtcList' = s.list
       /\ mtcProps' = s.props
       /\ mtcFiltered' = s.filtered
       /\ mtcSubs' = s.subs
       /\ emitted' = s.ev
       /\ lastOp' = op
       /\ LET m == Replay([arr |-> mirror, ok |-> mirrorOk], s.ev)
          IN  /\ mirror' = IF resync THEN toArray(s.list) ELSE m.arr
              /\ mirrorOk' = m.ok
       /\ UNCHANGED <<optFilter, optCompare, mtcSortTimeout, mtcFilteredNull,
                    mtcTimerTasks>>

\* the state after new ModelToCollection(model, opt)
MtcConstructed(model) ==
    M2C_setModel([model |-> "none", listening |-> "null", list |-> <<>>,
                  props |-> [k \in Keys |-> NoCont],
                  filtered |-> [k \in Keys |-> NoCont],
                  subs |-> {}, old |-> <<>>, ev |-> <<>>], model, FALSE)

(***************************************************************************)
(* Specification of a ModelToCollection (patchDiff version) in its         *)
(* environment.                                                            *)
(***************************************************************************)
\* the variables of the patchDiff run stay at rest
RestOfMtc ==
    /\ NoWrapper
    /\ OthersAtRest
    /\ mtcSortTimeout = FALSE /\ mtcFilteredNull = FALSE /\ mtcTimerTasks = 0
    /\ pdA = <<>> /\ pdB = <<>> /\ pdPc = "idle" /\ pdQueue = <<>>
    /\ pdWork = <<>> /\ pdValid = TRUE /\ pdRemoves = 0 /\ pdAdds = 0

\* model A starts with key k holding value k; the ranks run against the keys;
\* value 2 starts hidden
EnvInit ==
    /\ modelA = [k \in Keys |-> IF k \in Values THEN k ELSE None]
    /\ valRank = [v \in Values |-> (NumVals - v) % (MaxRank + 1)]
    /\ valHidden = [v \in Values |-> v = 2]
    /\ bus = <<>>
    /\ ops = 0

M2CInit ==
    /\ RestOfMtc
    /\ EnvInit
    /\ optFilter \in BOOLEAN
    /\ optCompare \in BOOLEAN
    /\ \E st \in {MtcConstructed("A")} :
           /\ mtcModel = st.model
           /\ mtcListening = st.listening
           /\ mtcList = st.list
           /\ mtcProps = st.props
           /\ mtcFiltered = st.filtered
           /\ mtcSubs = st.subs
           /\ mirror = toArray(st.list)
    /\ mirrorOk = TRUE
    /\ emitted = <<>>
    /\ lastOp = "init"

\* Model.set(props) on model A: the properties in S change to nv, and a
\* 'change' event with the old values is emitted to the registered handler
EnvModelSet ==
    /\ ops < MaxOps
    /\ \E S \in SUBSET Keys :
         /\ S # {}
         /\ Cardinality(S) <= MaxSetKeys
         /\ \E nv \in [S -> Values \cup {None}] :
              /\ \A k \in S : nv[k] \in KeyValues(k) \cup {None}
              /\ \A k \in S : nv[k] # modelA[k]
              /\ modelA' = [k \in Keys |-> IF k \in S THEN nv[k] ELSE modelA[k]]
              /\ bus' = IF mtcListening = "A"
                        THEN Append(bus, [type |-> "model", model |-> "A",
                                          change |-> [k \in S |-> modelA[k]],
                                          o |-> NoCont])
                        ELSE bus
    /\ ops' = ops + 1
    /\ lastOp' = "set"
    /\ emitted' = <<>>
    /\ UNCHANGED <<valRank, valHidden, mtcVars, mirror, mirrorOk, pdVars, cwVars, otherVars>>

\* the 'change' events a value emits: one for each callback registered on it
ItemEvents(v) ==
    LET cbs == {o \in mtcSubs : o.value = v}
        RECURSIVE Enqueue(_)
        Enqueue(S) ==
            IF S = {} THEN <<>>
            ELSE LET o == CHOOSE x \in S : \A y \in S : x.key <= y.key
                 IN  <<[type |-> "item", model |-> "null", change |-> <<>>, o |-> o]>>
                     \o Enqueue(S \ {o})
    IN  Enqueue(cbs)

\* set({ rank }) on an observable value
EnvValueSetRank ==
    /\ ops < MaxOps
    /\ \E v \in Values, r \in 0..MaxRank :
         /\ IsObservable(v)
         /\ r # valRank[v]
         /\ valRank' = [valRank EXCEPT ![v] = r]
         /\ bus' = bus \o ItemEvents(v)
    /\ ops' = ops + 1
    /\ lastOp' = "valueSet"
    /\ emitted' = <<>>
    /\ UNCHANGED <<modelA, valHidden, mtcVars, mirror, mirrorOk, pdVars, cwVars, otherVars>>

\* set({ hidden }) on an observable value
EnvValueSetHidden ==
    /\ ops < MaxOps
    /\ \E v \in Values :
         /\ IsObservable(v)
         /\ valHidden' = [valHidden EXCEPT ![v] = ~@]
         /\ bus' = bus \o ItemEvents(v)
    /\ ops' = ops + 1
    /\ lastOp' = "valueSet"
    /\ emitted' = <<>>
    /\ UNCHANGED <<modelA, valRank, mtcVars, mirror, mirrorOk, pdVars, cwVars, otherVars>>

\* the handler of the event at the head of the bus is still registered
HeadRegistered ==
    IF Head(bus).type = "model" THEN mtcListening = Head(bus).model
    ELSE Head(bus).o \in mtcSubs

\* the event bus calls this._onChange(change, m)
M2CDeliverChange ==
    /\ bus # <<>>
    /\ Head(bus).type = "model"
    /\ LET e == Head(bus)
       IN  Commit(M2C_onChange(MtcState, e.change, e.model),
                  IF e.model = mtcModel THEN "onChange" ELSE "ignored", FALSE)
    /\ bus' = Tail(bus)
    /\ UNCHANGED <<modelA, valRank, valHidden, ops, pdVars, cwVars, otherVars>>

\* the event bus calls o.cb
M2CDeliverItem ==
    /\ bus # <<>>
    /\ Head(bus).type = "item"
    /\ LET o == Head(bus).o
       IN  Commit(M2C_itemCb(MtcState, o),
                  IF mtcProps[o.key] = o THEN "itemChange" ELSE "ignored", FALSE)
    /\ bus' = Tail(bus)
    /\ UNCHANGED <<modelA, valRank, valHidden, ops, pdVars, cwVars, otherVars>>

\* the event bus skips an event whose handler has been removed since
BusDrop ==
    /\ bus # <<>>
    /\ ~HeadRegistered
    /\ bus' = Tail(bus)
    /\ lastOp' = "drop"
    /\ emitted' = <<>>
    /\ UNCHANGED <<modelA, valRank, valHidden, ops, mtcVars, mirror, mirrorOk, pdVars, cwVars, otherVars>>

\* setModel(model, noEvents)
M2CSetModel ==
    /\ ops < MaxOps
    /\ \E m \in {"A", "B", "null"}, noEvents \in BOOLEAN :
         Commit(M2C_setModel(MtcState, m, noEvents),
                IF m = mtcModel THEN "ignored" ELSE "setModel", noEvents)
    /\ ops' = ops + 1
    /\ UNCHANGED <<modelA, valRank, valHidden, bus, pdVars, cwVars, otherVars>>

\* refresh(key); refresh() is "refreshAll"
M2CRefresh ==
    /\ ops < MaxOps
    /\ \E key \in Keys \cup {None} :
         Commit(M2C_refresh(MtcState, key),
                IF key = None THEN "refreshAll" ELSE "refresh", FALSE)
    /\ ops' = ops + 1
    /\ UNCHANGED <<modelA, valRank, valHidden, bus, pdVars, cwVars, otherVars>>

\* dispose(); "disposeAgain" when the call before it was a dispose() too
M2CDispose ==
    /\ ops < MaxOps
    /\ Commit(M2C_dispose(MtcState),
              IF lastOp \in {"dispose", "disposeAgain"} THEN "disposeAgain"
              ELSE "dispose", TRUE)
    /\ ops' = ops + 1
    /\ UNCHANGED <<modelA, valRank, valHidden, bus, pdVars, cwVars, otherVars>>

M2CNext ==
    \/ EnvModelSet
    \/ EnvValueSetRank
    \/ EnvValueSetHidden
    \/ M2CDeliverChange
    \/ M2CDeliverItem
    \/ BusDrop
    \/ M2CSetModel
    \/ M2CRefresh
    \/ M2CDispose

SpecM2C == M2CInit /\ [][M2CNext]_vars

(***************************************************************************)
(* The same view over values that also change without a notification: the  *)
(* value that is a plain object has no 'change' event, so the view learns  *)
(* of nothing when its fields are written.                                  *)
(***************************************************************************)
\* value.rank = r or value.hidden = !value.hidden on a plain object
EnvPlainSet ==
    /\ ops < MaxOps
    /\ \E v \in Values :
         /\ ~IsObservable(v)
         /\ \/ /\ \E r \in 0..MaxRank :
                    r # valRank[v] /\ valRank' = [valRank EXCEPT ![v] = r]
               /\ UNCHANGED valHidden
            \/ /\ valHidden' = [valHidden EXCEPT ![v] = ~@]
               /\ UNCHANGED valRank
    /\ ops' = ops + 1
    /\ lastOp' = "plainSet"
    /\ emitted' = <<>>
    /\ UNCHANGED <<modelA, bus, mtcVars, mirror, mirrorOk, pdVars, cwVars, otherVars>>

RefreshNext ==
    \/ M2CNext
    \/ EnvPlainSet

SpecRefresh == M2CInit /\ [][RefreshNext]_vars

(***************************************************************************)
(* Claims about ModelToCollection (patchDiff version).                     *)
(***************************************************************************)
\* the steps in which the view handled a notification or a public call; a
\* step in which it returned at once (a notification of a model or of a
\* container it has left, setModel with the model it has) is "ignored"
Handled == {"onChange", "itemChange", "refresh", "refreshAll", "setModel",
            "dispose"}

\* no change notification is in flight: the view has been told of every
\* mutation of the model and of the values
Quiescent == bus = <<>>

\* the list is in the order of compare, evaluated on the current values
IsSorted(list) ==
    \A i, j \in 1..Len(list) : i < j => Compare(list[i], list[j]) <= 0

RECURSIVE InOrder(_)
\* the containers of S from the least to the greatest under compare
InOrder(S) ==
    IF S = {} THEN <<>>
    ELSE LET least == CHOOSE x \in S : \A y \in S \ {x} : Compare(x, y) < 0
         IN  <<least>> \o InOrder(S \ {least})

\* the list recomputed from scratch: the current model's properties that
\* pass the filter, in the order of compare
FromScratch ==
    LET p == getProps(mtcModel)
        shown == {[key |-> k, value |-> p[k], id |-> 0] :
                     k \in {x \in Keys : p[x] # None /\ Show(x, p[x])}}
    IN  toArray(InOrder(shown))

\* C2: after a change notification of the wrapped model is handled, the
\* mirror on which every emitted event was replayed in order equals
\* toArray(), and every index was valid for the mirror (a remove addressed
\* the removed item, an add lay within 0..length).
C2_ModelChangeReplay ==
    lastOp = "onChange" =>
        mirrorOk /\ mirror = toArray(mtcList)

C2_Witness ==
    /\ lastOp = "onChange"
    /\ optFilter
    /\ mirrorOk
    /\ mirror = toArray(mtcList)
    /\ \E i, j \in 1..Len(emitted) :
           emitted[i].event = "remove" /\ emitted[j].event = "add"
    /\ Len(emitted) >= 3

\* C3: once every mutation has been notified, toArray() equals the list
\* recomputed from scratch from the current model, the filter and compare.
C3_FromScratch == Quiescent => toArray(mtcList) = FromScratch

C3_Witness ==
    /\ Quiescent
    /\ lastOp = "itemChange"
    /\ ops = MaxOps
    /\ optFilter /\ optCompare
    /\ emitted # <<>>
    /\ Len(mtcList) >= 2
    /\ toArray(mtcList) = FromScratch

\* the filter result of the tracked container o is the one the view holds
FilterResultKept(o) == Show(o.key, o.value) <=> (mtcFiltered[o.key] = NoCont)

\* C8: a change notification of a tracked observable value that finds the
\* filter result of its item unchanged and the visible list in the order of
\* compare emits no event.
C8_NoOpItemChange ==
    [][(/\ bus # <<>>
        /\ Head(bus).type = "item"
        /\ lastOp' = "itemChange"
        /\ FilterResultKept(Head(bus).o)
        /\ IsSorted(mtcList))
       => emitted' = <<>>]_vars

C8_Witness ==
    /\ lastOp = "itemChange"
    /\ emitted = <<>>
    /\ optFilter /\ optCompare
    /\ Len(mtcList) >= 2
    /\ \E k \in Keys : mtcFiltered[k] # NoCont

Disposed ==
    /\ mtcModel = "null"
    /\ mtcListening = "null"
    /\ mtcList = <<>>
    /\ mtcSubs = {}
    /\ \A k \in Keys : mtcProps[k] = NoCont /\ mtcFiltered[k] = NoCont

\* C12: every dispose(), the first and each one after it, leaves the view in
\* the one disposed state (no model, an empty list, no container, no
\* subscription) and emits no event.
C12_DisposeIdempotent ==
    lastOp \in {"dispose", "disposeAgain"} => (Disposed /\ emitted = <<>>)

\* a dispose() right after a dispose(), made while notifications of the first
\* model's values are still in flight
C12_Witness ==
    /\ lastOp = "disposeAgain"
    /\ Disposed
    /\ bus # <<>>
    /\ emitted = <<>>

\* C13: a setModel call to another model with events finds the mirror equal
\* to toArray() and leaves it, after the replay of the events it emitted in
\* order, equal to the new toArray(), every index having been valid for the
\* mirror at its step.  (After a call with noEvents the observer reads
\* toArray() anew.)
C13_SetModelReplay ==
    [][lastOp' = "setModel" =>
          /\ mirror = toArray(mtcList)
          /\ (mirrorOk => mirrorOk')
          /\ mirror' = toArray(mtcList')]_vars

\* a setModel with events that removed and added
C13_Witness ==
    /\ lastOp = "setModel"
    /\ \E i, j \in 1..Len(emitted) :
           emitted[i].event = "remove" /\ emitted[j].event = "add"
    /\ mtcModel = "B"
    /\ mirrorOk
    /\ mirror = toArray(mtcList)
    /\ Len(mirror) >= 2

\* the tracked items that pass the filter now, in the order of compare now
TrackedFromScratch ==
    toArray(InOrder({o \in Conts(mtcProps) : Show(o.key, o.value)}))

\* no change notification of the model is in flight: the tracked items are
\* the properties of the model
ModelNotified == \A i \in 1..Len(bus) : bus[i].type # "model"

\* C14: refresh() finds the mirror equal to toArray() and leaves it, after the
\* replay of the events it emitted in order, equal to the new toArray(), which
\* is the list of the tracked items recomputed from scratch under the filter
\* and compare as they are now; that is the from-scratch list of the model
\* when no change of the model is still to be notified.
C14_RefreshFromScratch ==
    [][lastOp' = "refreshAll" =>
          /\ mirror = toArray(mtcList)
          /\ (mirrorOk => mirrorOk')
          /\ mirror' = toArray(mtcList')
          /\ toArray(mtcList') = TrackedFromScratch'
          /\ (ModelNotified => toArray(mtcList') = FromScratch')]_vars

\* a refresh() that emitted a remove and an add after a plain object was
\* written to
C14_Witness ==
    /\ lastOp = "refreshAll"
    /\ optFilter /\ optCompare
    /\ valRank[NumVals] # (NumVals - NumVals) % (MaxRank + 1)
    /\ \E i, j \in 1..Len(emitted) :
           emitted[i].event = "remove" /\ emitted[j].event = "add"
    /\ mirror = toArray(mtcList)
    /\ toArray(mtcList) = FromScratch

(***************************************************************************)
(* CollectionWrapper (src/src/CollectionWrapper.js).  The wrapped          *)
(* collection holds distinct items out of Values; an item is a Model when  *)
(* it is observable.  opt.filter reads the item's hidden flag, opt.compare *)
(* reads the rank of the item behind a model and then its id, opt.map      *)
(* wraps an item in a model of its own.  A handler is a function of the    *)
(* instance state                                                          *)
(*   cw = [list, subs, listening, coll, weak, hasWeak, ev, err]            *)
(* where ev are the events it has emitted and err says that it threw.      *)
(***************************************************************************)
\* what a loop that finds nothing returns when it has no return statement
NoIndex == -2

\* opt.map: item => the model made for the item
MapItem(item) == IF optMap THEN item + NumVals ELSE item

\* the item behind a model
ItemOf(m) == IF m > NumVals THEN m - NumVals ELSE m

\* opt.filter: m => !m.hidden
CwFilter(item) == ~valHidden[item]

\* opt.compare(a, b) on two models
CwCompare(a, b) ==
    IF valRank[ItemOf(a)] # valRank[ItemOf(b)]
    THEN valRank[ItemOf(a)] - valRank[ItemOf(b)]
    ELSE ItemOf(a) - ItemOf(b)

\* Array.prototype.splice(idx, 0, x)
JsSpliceIn(arr, idx, x) ==
    LET start == IF idx < 0 THEN Max(Len(arr) + idx, 0)
                 ELSE IF idx > Len(arr) THEN Len(arr) ELSE idx
    IN  SpliceIn(arr, start, x)

\* Array.prototype.splice(idx, 1)
JsSpliceOut(arr, idx) ==
    LET start == IF idx < 0 THEN Max(Len(arr) + idx, 0)
                 ELSE IF idx > Len(arr) THEN Len(arr) ELSE idx
    IN  IF start < Len(arr) THEN SpliceOut(arr, start) ELSE arr

\* _wrapModel(m, item); f is read only when a filter is given
CW_wrapModel(m, item) ==
    [m |-> m, f |-> IF optFilter THEN CwFilter(item) ELSE TRUE]

RECURSIVE CwInsertSorted(_, _)
CwInsertSorted(arr, x) ==
    IF arr = <<>> THEN <<x>>
    ELSE IF CwCompare(arr[Len(arr)].m, x.m) <= 0 THEN Append(arr, x)
    ELSE Append(CwInsertSorted(SubSeq(arr, 1, Len(arr) - 1), x), arr[Len(arr)])

RECURSIVE CwSort(_)
\* this._list.sort((a, b) => this._compare(a.m, b.m))
CwSort(arr) ==
    IF arr = <<>> THEN <<>>
    ELSE CwInsertSorted(CwSort(SubSeq(arr, 1, Len(arr) - 1)), arr[Len(arr)])

RECURSIVE CW_binarySearchLoop(_, _, _, _)
CW_binarySearchLoop(list, m, l, h) ==
    IF l > h THEN -l - 1
    ELSE LET mid == (l + h) \div 2
             c == CwCompare(list[mid + 1].m, m)
         IN  IF c < 0 THEN CW_binarySearchLoop(list, m, mid + 1, h)
             ELSE IF c > 0 THEN CW_binarySearchLoop(list, m, l, mid - 1)
             ELSE mid

\* _binarySearch(m)
CW_binarySearch(list, m) == CW_binarySearchLoop(list, m, 0, Len(list) - 1)

RECURSIVE CW_indexOfFrom(_, _, _, _)
\* indexOf(model): for (let cont of this._list), from list position i with
\* idx counted so far
CW_indexOfFrom(list, model, i, idx) ==
    IF i > Len(list) THEN IF optFilter THEN -1 ELSE NoIndex
    ELSE IF optFilter
         THEN IF list[i].f
              THEN IF list[i].m = model THEN idx + 1
                   ELSE CW_indexOfFrom(list, model, i + 1, idx + 1)
              ELSE IF list[i].m = model THEN -1
                   ELSE CW_indexOfFrom(list, model, i + 1, idx)
         ELSE IF list[i].m = model THEN idx + 1
              ELSE CW_indexOfFrom(list, model, i + 1, idx + 1)

\* indexOf(model)
CW_indexOf(list, model) == CW_indexOfFrom(list, model, 1, -1)

\* atIndex(idx): the model of this._list[idx], undefined (None) when there is
\* no such container
CW_atIndex(list, idx) ==
    IF idx >= 0 /\ idx < Len(list) THEN list[idx + 1].m ELSE None

\* get length
CW_length(list) ==
    IF optFilter THEN Len(SelectSeq(list, LAMBDA c : c.f)) ELSE Len(list)

\* map(m => m): the exposed sequence
CW_map(list) ==
    LET shown == SelectSeq(list, LAMBDA c : ~optFilter \/ c.f)
    IN  [i \in 1..Len(shown) |-> shown[i].m]

\* the handler throws: what it has done so far stays, nothing more happens
Throw(cw) == [cw EXCEPT !.err = TRUE]

\* the event the wrapper emits
CwEvent(ev, m, idx) == [event |-> ev, item |-> m, idx |-> idx]

RECURSIVE CW_scan(_, _, _, _)
\* _onChange without compare: for (idx = 0; idx < len; idx++), counting the
\* visible containers passed in emitIdx; idx is -1 when m is not found
CW_scan(list, m, idx, emitIdx) ==
    IF idx >= Len(list) THEN [idx |-> -1, emitIdx |-> emitIdx]
    ELSE IF list[idx + 1].m = m THEN [idx |-> idx, emitIdx |-> emitIdx]
    ELSE CW_scan(list, m, idx + 1, IF list[idx + 1].f THEN emitIdx + 1 ELSE emitIdx)

\* _onChange from "let f = this._filter(item)" on, cont being this._list[idx]
CW_onChangeFound(cw, item, m, idx, emitIdx) ==
    LET cont == cw.list[idx + 1]
        f == CwFilter(item)
    IN  IF f = cont.f THEN cw
        ELSE IF f
        THEN LET shown == [cw.list EXCEPT ![idx + 1].f = TRUE]
                 at == IF optCompare THEN CW_indexOf(shown, m) ELSE emitIdx
             IN  [cw EXCEPT !.list = shown,
                            !.ev = Append(@, CwEvent("add", cont.m, at))]
        ELSE LET at == IF optCompare THEN CW_indexOf(cw.list, m) ELSE emitIdx
             IN  [cw EXCEPT !.list[idx + 1].f = FALSE,
                            !.ev = Append(@, CwEvent("remove", cont.m, at))]

\* _onChange(changed, item).  With compare, cont is this._list[idx] for the idx
\* the binary search returns: when the search fails cont is undefined and
\* reading cont.f throws.  compare throws when it is handed undefined (an item
\* the weak map does not hold) or, with opt.map, an item in place of a model.
CW_onChange(cw, item) ==
    LET m == IF cw.hasWeak THEN cw.weak[item] ELSE item
    IN  IF optCompare
        THEN IF m = None \/ (optMap /\ ~cw.hasWeak) THEN Throw(cw)
             ELSE LET idx == CW_binarySearch(cw.list, m)
                  IN  IF idx < 0 THEN Throw(cw)
                      ELSE CW_onChangeFound(cw, item, m, idx, 0)
        ELSE LET at == CW_scan(cw.list, m, 0, 0)
             IN  IF at.idx < 0 THEN cw
                 ELSE CW_onChangeFound(cw, item, m, at.idx, at.emitIdx)

\* _onAdd(e)
CW_onAdd(cw, item, eidx) ==
    IF ~cw.coll THEN cw
    ELSE LET m == MapItem(item)
             found == IF optCompare THEN CW_binarySearch(cw.list, m) ELSE eidx
             idx == IF found < 0 THEN -found - 1 ELSE found
             cont == CW_wrapModel(m, item)
             list == JsSpliceIn(cw.list, idx, cont)
             s1 == [cw EXCEPT
                      !.weak = IF cw.hasWeak THEN [@ EXCEPT ![item] = m] ELSE @,
                      !.list = list,
                      !.subs = IF optFilter /\ IsObservable(item)
                               THEN @ \cup {item} ELSE @]
         IN  IF optFilter /\ ~cont.f THEN s1
             ELSE [s1 EXCEPT !.ev = Append(@, CwEvent("add", m,
                       IF optFilter THEN CW_indexOf(list, m) ELSE idx))]

\* _onRemove(e).  cont is this._list[idx]: undefined when idx is negative (a
\* failed binary search) or past the end; reading cont.f or cont.m then throws.
CW_onRemove(cw, item, eidx) ==
    IF ~cw.coll THEN cw
    ELSE IF optMap /\ optCompare /\ cw.weak[item] = None THEN Throw(cw)
    ELSE LET idx == IF optCompare
                    THEN CW_binarySearch(cw.list,
                             IF optMap THEN cw.weak[item] ELSE item)
                    ELSE eidx
             has == idx >= 0 /\ idx < Len(cw.list)
             s1 == [cw EXCEPT
                      !.weak = IF cw.hasWeak THEN [@ EXCEPT ![item] = None] ELSE @,
                      !.subs = IF optFilter THEN @ \ {item} ELSE @]
             cut == [s1 EXCEPT !.list = JsSpliceOut(@, idx)]
         IN  IF optFilter
             THEN IF ~has THEN Throw(s1)
                  ELSE IF ~cw.list[idx + 1].f THEN cut
                  ELSE [cut EXCEPT !.ev = Append(@, CwEvent("remove",
                            cw.list[idx + 1].m,
                            CW_indexOf(cw.list, cw.list[idx + 1].m)))]
             ELSE IF ~has THEN Throw(cut)
                  ELSE [cut EXCEPT !.ev = Append(@, CwEvent("remove",
                            cw.list[idx + 1].m, idx))]

\* dispose()
CW_dispose(cw) ==
    IF ~cw.coll THEN cw
    ELSE [cw EXCEPT !.listening = FALSE, !.coll = FALSE, !.hasWeak = FALSE,
                    !.weak = [i \in Values |-> None]]

\* _initList() and _setEventListeners(true): the state after
\* new CollectionWrapper(collection, opt)
CW_initList(source) ==
    LET pushed == [i \in 1..Len(source) |-> CW_wrapModel(MapItem(source[i]), source[i])]
        hasWeak == optMap /\ (optFilter \/ optCompare)
        items == {source[i] : i \in 1..Len(source)}
    IN  [list |-> IF optCompare THEN CwSort(pushed) ELSE pushed,
         subs |-> IF optFilter THEN {i \in items : IsObservable(i)} ELSE {},
         listening |-> TRUE,
         coll |-> TRUE,
         weak |-> [i \in Values |-> IF hasWeak /\ i \in items THEN MapItem(i) ELSE None],
         hasWeak |-> hasWeak,
         ev |-> <<>>,
         err |-> FALSE]

(***************************************************************************)
(* Specification of a CollectionWrapper over a Collection of Models.  The  *)
(* Collection and the Models emit through the event bus, which calls the   *)
(* handlers registered at the emission later, in emission order.           *)
(***************************************************************************)
\* the instance state the handlers work on
CwState ==
    [list |-> cwList, subs |-> cwSubs, listening |-> cwListening,
     coll |-> cwCollection, weak |-> cwWeakMap, hasWeak |-> cwHasWeakMap,
     ev |-> <<>>, err |-> FALSE]

\* the state a handler leaves, and the observer patching its mirror; the step
\* is recorded as op, or as thrown when the handler threw
CwCommitAs(cw, op, thrown) ==
    \E s \in {cw} :
       /\ cwList' = s.list
       /\ cwSubs' = s.subs
       /\ cwListening' = s.listening
       /\ cwCollection' = s.coll
       /\ cwWeakMap' = s.weak
       /\ cwHasWeakMap' = s.hasWeak
       /\ emitted' = s.ev
       /\ lastOp' = IF s.err THEN thrown ELSE op
       /\ LET m == Replay([arr |-> mirror, ok |-> mirrorOk], s.ev)
          IN  /\ mirror' = m.arr
              /\ mirrorOk' = m.ok
       /\ UNCHANGED <<optMap, optBegin, optEnd>>

CwCommit(cw, op) == CwCommitAs(cw, op, "throw")

\* there is no ModelToCollection and no patchDiff run
RestOfCw ==
    /\ OthersAtRest
    /\ pdA = <<>> /\ pdB = <<>> /\ pdPc = "idle" /\ pdQueue = <<>>
    /\ pdWork = <<>> /\ pdValid = TRUE /\ pdRemoves = 0 /\ pdAdds = 0
    /\ modelA = <<>> /\ mtcModel = "null" /\ mtcListening = "null"
    /\ mtcList = <<>> /\ mtcProps = <<>> /\ mtcFiltered = <<>> /\ mtcSubs = {}
    /\ mtcSortTimeout = FALSE /\ mtcFilteredNull = FALSE /\ mtcTimerTasks = 0

\* the collection starts with the observable items, in the order of their ids
CwInit ==
    /\ RestOfCw
    /\ valRank = [v \in Values |-> (NumVals - v) % (MaxRank + 1)]
    /\ valHidden = [v \in Values |-> v = 2]
    /\ bus = <<>>
    /\ ops = 0
    /\ optFilter \in BOOLEAN
    /\ optCompare \in BOOLEAN
    /\ optMap \in BOOLEAN
    /\ optBegin = <<>>
    /\ optEnd = <<>>
    /\ cwSource = [i \in 1..(NumVals - 1) |-> i]
    /\ \E s \in {CW_initList(cwSource)} :
           /\ cwList = s.list
           /\ cwSubs = s.subs
           /\ cwListening = s.listening
           /\ cwCollection = s.coll
           /\ cwWeakMap = s.weak
           /\ cwHasWeakMap = s.hasWeak
           /\ mirror = CW_map(s.list)
    /\ mirrorOk = TRUE
    /\ emitted = <<>>
    /\ lastOp = "init"

\* what the wrapper leaves alone in a step of its environment
CwUntouched ==
    UNCHANGED <<cwList, cwSubs, cwListening, cwCollection, cwWeakMap,
                cwHasWeakMap, optMap, optBegin, optEnd, optFilter, optCompare,
                mirror, mirrorOk>>

\* what stays at rest in every step of this specification
CwRest ==
    UNCHANGED <<modelA, mtcModel, mtcListening, mtcList, mtcProps, mtcFiltered,
                mtcSubs, mtcSortTimeout, mtcFilteredNull, mtcTimerTasks, pdVars,
                otherVars>>

\* Collection.add(item, idx)
CwSourceAdd ==
    /\ ops < MaxOps
    /\ \E item \in Values, idx \in 0..Len(cwSource) :
         /\ item \notin {cwSource[i] : i \in 1..Len(cwSource)}
         /\ cwSource' = SpliceIn(cwSource, idx, item)
         /\ bus' = IF cwListening
                   THEN Append(bus, [type |-> "add", item |-> item, idx |-> idx])
                   ELSE bus
    /\ ops' = ops + 1
    /\ lastOp' = "add"
    /\ emitted' = <<>>
    /\ CwUntouched /\ CwRest
    /\ UNCHANGED <<valRank, valHidden>>

\* Collection.remove(id)
CwSourceRemove ==
    /\ ops < MaxOps
    /\ \E idx \in 0..(Len(cwSource) - 1) :
         /\ cwSource' = SpliceOut(cwSource, idx)
         /\ bus' = IF cwListening
                   THEN Append(bus, [type |-> "remove", item |-> cwSource[idx + 1],
                                     idx |-> idx])
                   ELSE bus
    /\ ops' = ops + 1
    /\ lastOp' = "remove"
    /\ emitted' = <<>>
    /\ CwUntouched /\ CwRest
    /\ UNCHANGED <<valRank, valHidden>>

\* the 'change' event of an item, for the handler registered on it
CwItemEvents(item) ==
    IF item \in cwSubs THEN <<[type |-> "change", item |-> item, idx |-> 0]>>
    ELSE <<>>

\* item.set({ rank })
CwItemSetRank ==
    /\ ops < MaxOps
    /\ \E v \in Values, r \in 0..MaxRank :
         /\ IsObservable(v)
         /\ r # valRank[v]
         /\ valRank' = [valRank EXCEPT ![v] = r]
         /\ bus' = bus \o CwItemEvents(v)
    /\ ops' = ops + 1
    /\ lastOp' = "itemSet"
    /\ emitted' = <<>>
    /\ CwUntouched /\ CwRest
    /\ UNCHANGED <<valHidden, cwSource>>

\* item.set({ hidden })
CwItemSetHidden ==
    /\ ops < MaxOps
    /\ \E v \in Values :
         /\ IsObservable(v)
         /\ valHidden' = [valHidden EXCEPT ![v] = ~@]
         /\ bus' = bus \o CwItemEvents(v)
    /\ ops' = ops + 1
    /\ lastOp' = "itemSet"
    /\ emitted' = <<>>
    /\ CwUntouched /\ CwRest
    /\ UNCHANGED <<valRank, cwSource>>

\* the event bus calls this._onAdd(e)
CwDeliverAdd ==
    /\ bus # <<>>
    /\ Head(bus).type = "add"
    /\ CwCommit(CW_onAdd(CwState, Head(bus).item, Head(bus).idx), "onAdd")
    /\ bus' = Tail(bus)
    /\ CwRest
    /\ UNCHANGED <<valRank, valHidden, ops, cwSource, optFilter, optCompare>>

\* the event bus calls this._onRemove(e)
CwDeliverRemove ==
    /\ bus # <<>>
    /\ Head(bus).type = "remove"
    /\ CwCommit(CW_onRemove(CwState, Head(bus).item, Head(bus).idx), "onRemove")
    /\ bus' = Tail(bus)
    /\ CwRest
    /\ UNCHANGED <<valRank, valHidden, ops, cwSource, optFilter, optCompare>>

\* the event bus calls this._onChange(changed, item)
CwDeliverChange ==
    /\ bus # <<>>
    /\ Head(bus).type = "change"
    /\ CwCommit(CW_onChange(CwState, Head(bus).item), "onChange")
    /\ bus' = Tail(bus)
    /\ CwRest
    /\ UNCHANGED <<valRank, valHidden, ops, cwSource, optFilter, optCompare>>

\* the event bus skips an event whose handler has been removed since
CwBusDrop ==
    /\ bus # <<>>
    /\ IF Head(bus).type = "change" THEN Head(bus).item \notin cwSubs
       ELSE ~cwListening
    /\ bus' = Tail(bus)
    /\ lastOp' = "drop"
    /\ emitted' = <<>>
    /\ CwUntouched /\ CwRest
    /\ UNCHANGED <<valRank, valHidden, ops, cwSource>>

\* dispose()
CwDispose ==
    /\ ops < MaxOps
    /\ CwCommit(CW_dispose(CwState), "dispose")
    /\ ops' = ops + 1
    /\ CwRest
    /\ UNCHANGED <<valRank, valHidden, bus, cwSource, optFilter, optCompare>>

CwNext ==
    \/ CwSourceAdd
    \/ CwSourceRemove
    \/ CwItemSetRank
    \/ CwItemSetHidden
    \/ CwDeliverAdd
    \/ CwDeliverRemove
    \/ CwDeliverChange
    \/ CwBusDrop
    \/ CwDispose

SpecCw == CwInit /\ [][CwNext]_vars

(***************************************************************************)
(* The same wrapper over a source that also emits 'remove' for an item the *)
(* wrapper does not hold (the handler is called with such an item and any  *)
(* index of the source).                                                   *)
(***************************************************************************)
\* the items the wrapper holds a container of
CwTracked == {ItemOf(cwList[i].m) : i \in 1..Len(cwList)}

\* the event bus calls this._onRemove(e) with an item the wrapper does not hold
CwStrayRemove ==
    /\ ops < MaxOps
    /\ \E item \in Values \ CwTracked, idx \in 0..Len(cwSource) :
         CwCommitAs(CW_onRemove(CwState, item, idx), "strayRemove", "strayThrow")
    /\ ops' = ops + 1
    /\ CwRest
    /\ UNCHANGED <<valRank, valHidden, bus, cwSource, optFilter, optCompare>>

CwStrayNext ==
    \/ CwNext
    \/ CwStrayRemove

SpecCwStray == CwInit /\ [][CwStrayNext]_vars

(***************************************************************************)
(* A CollectionWrapper constructed with opt.begin and/or opt.end and no     *)
(* filter, compare or map, over the same collection.  The constructor      *)
(* takes filter, map, compare, namespace and eventBus out of opt; no other *)
(* property of opt is read anywhere in the class.                          *)
(***************************************************************************)
\* the values opt.begin and opt.end are given
Bounds == {<<>>} \cup {<<n>> : n \in (-MaxBound)..MaxBound}

CwSliceInit ==
    /\ RestOfCw
    /\ valRank = [v \in Values |-> (NumVals - v) % (MaxRank + 1)]
    /\ valHidden = [v \in Values |-> v = 2]
    /\ bus = <<>>
    /\ ops = 0
    /\ optFilter = FALSE
    /\ optCompare = FALSE
    /\ optMap = FALSE
    /\ optBegin \in Bounds
    /\ optEnd \in Bounds
    /\ cwSource = [i \in 1..(NumVals - 1) |-> i]
    /\ \E s \in {CW_initList(cwSource)} :
           /\ cwList = s.list
           /\ cwSubs = s.subs
           /\ cwListening = s.listening
           /\ cwCollection = s.coll
           /\ cwWeakMap = s.weak
           /\ cwHasWeakMap = s.hasWeak
           /\ mirror = CW_map(s.list)
    /\ mirrorOk = TRUE
    /\ emitted = <<>>
    /\ lastOp = "init"

CwSliceNext ==
    \/ CwSourceAdd
    \/ CwSourceRemove
    \/ CwDeliverAdd
    \/ CwDeliverRemove
    \/ CwBusDrop
    \/ CwDispose

SpecCwSlice == CwSliceInit /\ [][CwSliceNext]_vars

(***************************************************************************)
(* Claims about CollectionWrapper.                                         *)
(***************************************************************************)
RECURSIVE PosFrom(_, _, _)
PosFrom(arr, x, i) ==
    IF i > Len(arr) THEN -1
    ELSE IF arr[i] = x THEN i - 1
    ELSE PosFrom(arr, x, i + 1)

\* the 0-based position of x in arr, -1 when arr does not hold x
Pos(arr, x) == PosFrom(arr, x, 1)

\* C6: as long as the wrapper is not disposed, the mirror on which every
\* emitted event was replayed in order equals the exposed sequence, and every
\* index was valid for the mirror (a remove addressed the removed item, an
\* add lay within 0..length).
C6_WrapperReplay ==
    cwCollection => (mirrorOk /\ mirror = CW_map(cwList))

\* the container of the item of the change notification at the head of the bus
HeadCont ==
    LET at == {i \in 1..Len(cwList) : ItemOf(cwList[i].m) = Head(bus).item}
    IN  cwList[CHOOSE i \in at : TRUE]

\* the change notification at the head of the bus is of an item the wrapper
\* holds, and the filter result of the item is not the one its container has
HeadToggles ==
    /\ bus # <<>>
    /\ Head(bus).type = "change"
    /\ cwCollection
    /\ optFilter
    /\ \E i \in 1..Len(cwList) : ItemOf(cwList[i].m) = Head(bus).item
    /\ HeadCont.f # CwFilter(Head(bus).item)

\* C7: when the wrapper handles a change notification that turns the filter
\* result of an item it holds from false to true it emits exactly one add,
\* from true to false exactly one remove, with idx the number of visible items
\* before the item in the exposed sequence.
C7_FilterToggle ==
    [][(HeadToggles /\ lastOp' \in {"onChange", "throw"}) =>
          IF CwFilter(Head(bus).item)
          THEN emitted' = <<CwEvent("add", HeadCont.m,
                                    Pos(CW_map(cwList'), HeadCont.m))>>
          ELSE emitted' = <<CwEvent("remove", HeadCont.m,
                                    Pos(CW_map(cwList), HeadCont.m))>>]_vars

\* C11: once the wrapper is disposed it is registered neither on the source
\* collection nor on any item, and no step makes it emit an add or a remove.
C11_DisposedSilent ==
    ~cwCollection => (~cwListening /\ cwSubs = {} /\ emitted = <<>>)

\* the models are in the order of opt.compare, evaluated on the items as they
\* are now
CwIsSorted(seq) ==
    \A i, j \in 1..Len(seq) : i < j => CwCompare(seq[i], seq[j]) <= 0

\* C15: with a compare function, once every item change has been notified
\* the exposed sequence is sorted by compare, and so is the mirror, in which
\* the events moved each item that had left its place (a remove at its old
\* index, then an add at the recomputed one).
C15_ResortOnChange ==
    (cwCollection /\ optCompare /\ Quiescent) =>
        (CwIsSorted(CW_map(cwList)) /\ CwIsSorted(mirror))

\* the begin of slice(begin, end) on an array of len items
BeginIndex(b, len) ==
    IF b = <<>> THEN 0
    ELSE IF b[1] < 0 THEN Max(len + b[1], 0)
    ELSE IF b[1] > len THEN len ELSE b[1]

\* the end of slice(begin, end) on an array of len items
EndIndex(e, len) ==
    IF e = <<>> THEN len
    ELSE IF e[1] < 0 THEN Max(len + e[1], 0)
    ELSE IF e[1] > len THEN len ELSE e[1]

\* seq.slice(opt.begin, opt.end)
Window(seq) ==
    LET b == BeginIndex(optBegin, Len(seq))
        e == EndIndex(optEnd, Len(seq))
    IN  IF b < e THEN Slice(seq, b, e) ELSE <<>>

\* the visible list recomputed from scratch: the items of the source that
\* pass the filter, mapped, in the order of compare
CwVisible ==
    LET shown == SelectSeq(cwSource, LAMBDA i : ~optFilter \/ CwFilter(i))
        conts == [i \in 1..Len(shown) |-> [m |-> MapItem(shown[i]), f |-> TRUE]]
        inOrder == IF optCompare THEN CwSort(conts) ELSE conts
    IN  [i \in 1..Len(inOrder) |-> inOrder[i].m]

\* C16: a wrapper constructed with opt.begin and/or opt.end exposes the
\* slice(begin, end) of the visible list: map() yields it and length is its
\* length.
C16_SliceView ==
    lastOp = "init" =>
        /\ CW_map(cwList) = Window(CwVisible)
        /\ CW_length(cwList) = Len(Window(CwVisible))

\* C17: once a source add or remove has been handled and nothing is in
\* flight, the exposed sequence is the slice(begin, end) of the source list
\* recomputed from scratch, and so is the mirror, on which the emitted events
\* were replayed in order with every index valid.
C17_SliceAfterMutation ==
    (lastOp \in {"onAdd", "onRemove"} /\ Quiescent) =>
        /\ CW_map(cwList) = Window(CwVisible)
        /\ mirrorOk
        /\ mirror = Window(CwVisible)

\* the models a caller can hand to indexOf: the items and their mapped models
Models == 1..(2 * NumVals)

\* C18: indexOf(x) is -1 for every model x that is not in the exposed
\* sequence, with a filter and without.
C18_IndexOfAbsent ==
    \A x \in Models :
        Pos(CW_map(cwList), x) = -1 => CW_indexOf(cwList, x) = -1

\* C19: atIndex(i) is the i-th model of the exposed sequence, with
\* indexOf(atIndex(i)) = i, for 0 <= i < length, and undefined for every
\* other i.
C19_AtIndexExposed ==
    \A i \in (-1)..(NumVals + 1) :
        IF i >= 0 /\ i < CW_length(cwList)
        THEN /\ CW_atIndex(cwList, i) = CW_map(cwList)[i + 1]
             /\ CW_indexOf(cwList, CW_atIndex(cwList, i)) = i
        ELSE CW_atIndex(cwList, i) = None

\* C20: a remove notification for an item the wrapper does not hold raises
\* no error, emits no event and leaves this._list, and so the exposed
\* sequence, as it was.
C20_StrayRemoveNoOp ==
    [][lastOp' \in {"strayRemove", "strayThrow"} =>
          /\ lastOp' = "strayRemove"
          /\ emitted' = <<>>
          /\ cwList' = cwList]_vars

(***************************************************************************)
(* _indexOfItem on its own: it is called on a list in any order (the ranks *)
(* the list was sorted under may have changed since), under any compare.   *)
(***************************************************************************)
RECURSIVE ListsOver(_, _)
\* the arrays of at most n containers with distinct keys out of K
ListsOver(K, n) ==
    IF n = 0 \/ K = {} THEN {<<>>}
    ELSE {<<>>} \cup
         UNION {{<<[key |-> k, value |-> v, id |-> 1]>> \o rest :
                    v \in KeyValues(k), rest \in ListsOver(K \ {k}, n - 1)} :
                k \in K}

IxInit ==
    /\ NoWrapper
    /\ CollectionsAtRest
    /\ NoModifyModel
    /\ NoModelWrapper
    /\ pdA = <<>> /\ pdB = <<>> /\ pdPc = "idle" /\ pdQueue = <<>>
    /\ pdWork = <<>> /\ pdValid = TRUE /\ pdRemoves = 0 /\ pdAdds = 0
    /\ modelA = <<>> /\ valHidden = <<>> /\ bus = <<>> /\ ops = 0
    /\ valRank \in [Values -> 0..MaxRank]
    /\ optFilter = FALSE
    /\ optCompare \in BOOLEAN
    /\ optTies \in BOOLEAN
    /\ optTies => optCompare
    /\ mtcModel = "A" /\ mtcListening = "A"
    /\ mtcList \in ListsOver(Keys, NumKeys)
    /\ mtcProps = <<>> /\ mtcFiltered = <<>> /\ mtcSubs = {}
    /\ mtcSortTimeout = FALSE /\ mtcFilteredNull = FALSE /\ mtcTimerTasks = 0
    /\ mirror = <<>> /\ mirrorOk = TRUE /\ emitted = <<>> /\ lastOp = "init"
    /\ ixKey \in Keys
    /\ ixItem \in Values
    /\ ixPc = "call"
    /\ ixResult = -1

\* this._indexOfItem(ixKey, ixItem)
IxCall ==
    /\ ixPc = "call"
    /\ ixResult' = M2C_indexOfItem(mtcList, ixKey, ixItem)
    /\ ixPc' = "done"
    /\ UNCHANGED <<optTies, ixKey, ixItem, envVars, mtcVars, obsVars, pdVars,
                   cwVars, mmVars, mwVars, colVars, ctmVars, jcVars>>

IxNext == IxCall

SpecIndexOf == IxInit /\ [][IxNext]_vars

\* C25: _indexOfItem(k, item) returns the index of the container with key k
\* whenever the list holds one, whatever the order of the list and whatever
\* the binary search ran into, and -1 only when the list holds none.
C25_IndexOfItem ==
    ixPc = "done" =>
        IF \E i \in 1..Len(mtcList) : mtcList[i].key = ixKey
        THEN /\ ixResult \in 0..(Len(mtcList) - 1)
             /\ mtcList[ixResult + 1].key = ixKey
        ELSE ixResult = -1

\* the binary search has landed on another container than the one with key
\* k, which the list holds
C25_Witness ==
    /\ ixPc = "done"
    /\ ixResult >= 0
    /\ LET idx == binarySearch(mtcList, [key |-> ixKey, value |-> ixItem,
                                          id |-> 0])
       IN  idx >= 0 /\ idx # ixResult /\ mtcList[idx + 1].key # ixKey

(***************************************************************************)
(* ModelToCollection, the version that emits every list operation as it    *)
(* makes it and re-sorts in a timer task (src/unnamed/part_003).  It has    *)
(* the fields of the other version and this.sortTimeout; this._props is    *)
(* never written, and dispose sets this._filtered to null.  _insertIdx,    *)
(* _indexOfItem, _indexOfKey and _unlistenItem are the same code in both   *)
(* versions.  A handler is a function of the instance state                *)
(*   st = [model, listening, list, props, filtered, fnull, subs, old,      *)
(*         timer, tasks, ev, err]                                          *)
(***************************************************************************)
\* _listenItem(o)
TM_listenItem(st, o) ==
    [st EXCEPT !.subs = IF IsObservable(o.value) THEN @ \cup {o} ELSE @]

\* _removeAtIdx(idx): o = this._list[idx] is undefined when idx is not an
\* index of the list; the splice is made and reading o.value throws
TM_removeAtIdx(st, idx) ==
    IF idx >= 0 /\ idx < Len(st.list)
    THEN [st EXCEPT !.list = SpliceOut(@, idx),
                    !.ev = Append(@, [event |-> "remove",
                                      item |-> st.list[idx + 1].value,
                                      idx |-> idx])]
    ELSE Throw([st EXCEPT !.list = JsSpliceOut(@, idx)])

\* _addAtIdx(o, idx)
TM_addAtIdx(st, o, idx) ==
    [st EXCEPT !.list = JsSpliceIn(@, idx, o),
               !.ev = Append(@, [event |-> "add", item |-> o.value, idx |-> idx])]

\* this._filtered[k] = o, which throws when this._filtered is null
TM_setFiltered(st, k, o) ==
    IF st.fnull THEN Throw(st) ELSE [st EXCEPT !.filtered[k] = o]

\* this._filtered && this._filtered[k]
TM_filteredAt(st, k) == IF st.fnull THEN NoCont ELSE st.filtered[k]

\* _onItemChange(k, v).  When the item is not in the list idx is -1 and o is
\* undefined: compare throws on it, and so does _removeAtIdx(-1).
TM_onItemChange(st, k, v) ==
    LET show == Show(k, v)
        hidden == TM_filteredAt(st, k)
    IN  IF hidden # NoCont
        THEN IF ~show THEN st
             ELSE TM_addAtIdx([st EXCEPT !.filtered[k] = NoCont], hidden,
                              M2C_insertIdx(st.list, hidden))
        ELSE LET idx == M2C_indexOfItem(st.list, k, v)
             IN  IF idx < 0
                 THEN IF show THEN Throw(st) ELSE TM_removeAtIdx(st, idx)
                 ELSE LET o == st.list[idx + 1]
                          inPlace ==
                              /\ show
                              /\ (idx = 0 \/ Compare(st.list[idx], o) < 0)
                              /\ (idx = Len(st.list) - 1
                                  \/ Compare(o, st.list[idx + 2]) < 0)
                          s1 == TM_removeAtIdx(st, idx)
                      IN  IF inPlace THEN st
                          ELSE IF show
                          THEN TM_addAtIdx(s1, o, M2C_insertIdx(s1.list, o))
                          ELSE TM_setFiltered(s1, k, o)

\* _addItem(k, item)
TM_addItem(st, k, item) ==
    LET o == NewCont(st, k, item)
        s1 == TM_listenItem(st, o)
    IN  IF Show(k, item) THEN TM_addAtIdx(s1, o, M2C_insertIdx(s1.list, o))
        ELSE TM_setFiltered(s1, k, o)

\* _removeItem(k, item)
TM_removeItem(st, k, item) ==
    LET hidden == TM_filteredAt(st, k)
        idx == M2C_indexOfItem(st.list, k, item)
    IN  IF hidden # NoCont
        THEN [M2C_unlistenItem(st, hidden) EXCEPT !.filtered[k] = NoCont]
        ELSE IF idx < 0 THEN st
        ELSE TM_removeAtIdx(M2C_unlistenItem(st, st.list[idx + 1]), idx)

\* _updateItem(k, oitem, item)
TM_updateItem(st, k, oitem, item) ==
    LET hidden == TM_filteredAt(st, k)
        oidx == M2C_indexOfItem(st.list, k, oitem)
    IN  IF hidden = NoCont /\ oidx < 0 THEN st
        ELSE LET s1 == IF hidden # NoCont
                       THEN [M2C_unlistenItem(st, hidden)
                                EXCEPT !.filtered[k] = NoCont]
                       ELSE TM_removeAtIdx(
                                M2C_unlistenItem(st, st.list[oidx + 1]), oidx)
                 o == NewCont(s1, k, item)
                 s2 == TM_listenItem(s1, o)
             IN  IF Show(k, item)
                 THEN TM_addAtIdx(s2, o, M2C_insertIdx(s2.list, o))
                 ELSE TM_setFiltered(s2, k, o)

RECURSIVE TM_onChangeLoop(_, _, _, _)
\* _onChange: for (let k in change) { ... }; a throw ends the loop
TM_onChangeLoop(st, change, p, keys) ==
    IF keys = {} \/ st.err THEN st
    ELSE LET k  == Min(keys)
             ov == change[k]
             nv == p[k]
             s1 == IF ov = nv THEN st
                   ELSE IF ov = None THEN TM_addItem(st, k, nv)
                   ELSE IF nv = None THEN TM_removeItem(st, k, ov)
                   ELSE TM_updateItem(st, k, ov, nv)
         IN  TM_onChangeLoop(s1, change, p, keys \ {k})

\* _onChange(change, m)
TM_onChange(st, change, m) ==
    IF m # st.model THEN st
    ELSE TM_onChangeLoop(st, change, getProps(m), DOMAIN change)

\* _ensureSynchronized() that calls setTimeout whether or not a task is pending
TM_ensureSynchronizedAlways(st) ==
    IF st.err THEN st
    ELSE [st EXCEPT !.timer = TRUE, !.tasks = @ + 1]

\* _ensureSynchronized(): if (!this.sortTimeout) this.sortTimeout =
\* setTimeout(...); it is not reached when the handler has thrown
TM_ensureSynchronized(st) ==
    IF st.err \/ st.timer THEN st
    ELSE [st EXCEPT !.timer = TRUE, !.tasks = @ + 1]

\* the callback o.cb that _listenItem registers on an observable value
TM_itemCb(st, o) ==
    IF st.model # "null" /\ getProps(st.model)[o.key] # None
    THEN TM_ensureSynchronized(TM_onItemChange(st, o.key, o.value))
    ELSE st

RECURSIVE TM_refreshLoop(_, _, _)
\* refresh: for (let k in p) this._onItemChange(k, p[k])
TM_refreshLoop(st, p, keys) ==
    IF keys = {} \/ st.err THEN st
    ELSE LET k == Min(keys)
         IN  TM_refreshLoop(TM_onItemChange(st, k, p[k]), p, keys \ {k})

\* refresh(key); key None is refresh()
TM_refresh(st, key) ==
    IF st.model = "null" THEN st
    ELSE LET p == getProps(st.model)
         IN  TM_ensureSynchronized(
                 IF key # None
                 THEN IF p[key] # None THEN TM_onItemChange(st, key, p[key])
                      ELSE st
                 ELSE TM_refreshLoop(st, p, {k \in Keys : p[k] # None}))

RECURSIVE TM_applyDiff(_, _)
\* the patchDiff callbacks of _synchronize, which patch this._list
TM_applyDiff(st, calls) ==
    IF calls = <<>> THEN st
    ELSE LET e == Head(calls)
         IN  TM_applyDiff(IF e.cb = "add" THEN TM_addAtIdx(st, e.item, e.idx)
                          ELSE TM_removeAtIdx(st, e.idx),
                          Tail(calls))

\* _synchronize() that sorts this._list in place and emits nothing
TM_synchronizeSilent(st) ==
    LET s1 == [st EXCEPT !.timer = FALSE]
    IN  IF s1.model = "null" THEN s1
        ELSE [s1 EXCEPT !.list = Sort(@)]

\* _synchronize(), the timer task
TM_synchronize(st) ==
    LET s1 == [st EXCEPT !.timer = FALSE]
    IN  IF s1.model = "null" THEN s1
        ELSE TM_applyDiff(s1, patchDiff(s1.list, Sort(s1.list)))

RECURSIVE TM_unlistenList(_, _, _)
\* setModel: for (let i = this._list.length - 1; i >= 0; i--) { ... }
TM_unlistenList(st, i, noEvents) ==
    IF i < 0 THEN st
    ELSE LET o == st.list[i + 1]
             s1 == M2C_unlistenItem(st, o)
             s2 == IF noEvents THEN s1
                   ELSE [s1 EXCEPT !.ev = Append(@, [event |-> "remove",
                                                     item |-> o.value,
                                                     idx |-> i])]
         IN  TM_unlistenList(s2, i - 1, noEvents)

RECURSIVE TM_setModelLoop(_, _, _)
\* setModel: for (let k in p) { ... }; a throw ends the loop
TM_setModelLoop(st, p, keys) ==
    IF keys = {} \/ st.err THEN st
    ELSE LET k  == Min(keys)
             v  == p[k]
             o  == NewCont(st, k, v)
             s1 == IF Show(k, v) THEN [st EXCEPT !.list = Append(@, o)]
                   ELSE TM_setFiltered(st, k, o)
         IN  TM_setModelLoop(IF s1.err THEN s1 ELSE TM_listenItem(s1, o),
                             p, keys \ {k})

RECURSIVE TM_emitAdds(_, _)
\* setModel: for (let i = 0; i < this._list.length; i++) emit add
TM_emitAdds(st, i) ==
    IF i >= Len(st.list) THEN st
    ELSE TM_emitAdds([st EXCEPT !.ev = Append(@, [event |-> "add",
                                                  item |-> st.list[i + 1].value,
                                                  idx |-> i])],
                     i + 1)

\* setModel(model, noEvents)
TM_setModel(st, model, noEvents) ==
    IF model = st.model THEN st
    ELSE LET s1 == TM_unlistenList(st, Len(st.list) - 1, noEvents)
             s2 == [s1 EXCEPT !.listening = IF ModelHasOn(model) THEN model
                                            ELSE "null",
                              !.model = model,
                              !.list = <<>>]
             p  == getProps(model)
             s3 == TM_setModelLoop(s2, p, {k \in Keys : p[k] # None})
             s4 == [s3 EXCEPT !.list = Sort(@)]
         IN  IF model = "null" THEN s2
             ELSE IF s3.err THEN s3
             ELSE IF noEvents THEN s4
             ELSE TM_emitAdds(s4, 0)

RECURSIVE TM_unlistenAll(_, _)
\* dispose: for (...) this._unlistenItem(o)
TM_unlistenAll(st, conts) ==
    IF conts = {} THEN st
    ELSE LET o == CHOOSE x \in conts : TRUE
         IN  TM_unlistenAll(M2C_unlistenItem(st, o), conts \ {o})

\* dispose() that only unlistens: the reset of this._list and this._model is
\* missing
TM_disposeKeepState(st) ==
    IF st.model = "null" THEN st
    ELSE LET s1 == TM_unlistenAll(st, Elems(st.list))
         IN  IF optFilter /\ ~s1.fnull
             THEN TM_unlistenAll(s1, Conts(s1.filtered))
             ELSE s1

\* dispose()
TM_dispose(st) ==
    IF st.model = "null" THEN st
    ELSE LET s1 == TM_unlistenAll(st, Elems(st.list))
             s2 == IF optFilter /\ ~s1.fnull
                   THEN [TM_unlistenAll(s1, Conts(s1.filtered))
                            EXCEPT !.filtered = [k \in Keys |-> NoCont],
                                   !.fnull = TRUE]
                   ELSE s1
         IN  [s2 EXCEPT !.list = <<>>, !.listening = "null", !.model = "null"]

(***************************************************************************)
(* Specification of a ModelToCollection (timer version) in the environment *)
(* of the other version: model A, the observable values and the event bus. *)
(* The timer task runs at any time after it was scheduled.                 *)
(***************************************************************************)
\* the instance state the handlers work on
TmState ==
    [model |-> mtcModel, listening |-> mtcListening, list |-> mtcList,
     props |-> mtcProps, filtered |-> mtcFiltered, fnull |-> mtcFilteredNull,
     subs |-> mtcSubs, old |-> <<>>, timer |-> mtcSortTimeout,
     tasks |-> mtcTimerTasks,
     ev |-> <<>>, err |-> FALSE]

\* the state a handler leaves, and the observer patching its mirror; with
\* resync the observer reads toArray() again instead
TmCommit(st, op, resync) ==
    \E s \in {st} :
       /\ mtcModel' = s.model
       /\ mtcListening' = s.listening
       /\ mtcList' = s.list
       /\ mtcFiltered' = s.filtered
       /\ mtcFilteredNull' = s.fnull
       /\ mtcSubs' = s.subs
       /\ mtcSortTimeout' = s.timer
       /\ mtcTimerTasks' = s.tasks
       /\ emitted' = s.ev
       /\ lastOp' = IF s.err THEN "throw" ELSE op
       /\ LET m == Replay([arr |-> mirror, ok |-> mirrorOk], s.ev)
          IN  /\ mirror' = IF resync THEN toArray(s.list) ELSE m.arr
              /\ mirrorOk' = m.ok
       /\ UNCHANGED <<optFilter, optCompare, mtcProps>>

\* the state after new ModelToCollection(model, opt)
TmConstructed(model) ==
    TM_setModel([model |-> "none", listening |-> "null", list |-> <<>>,
                 props |-> [k \in Keys |-> NoCont],
                 filtered |-> [k \in Keys |-> NoCont], fnull |-> FALSE,
                 subs |-> {}, old |-> <<>>, timer |-> FALSE, tasks |-> 0,
                 ev |-> <<>>, err |-> FALSE], model, FALSE)

TmInit ==
    /\ RestOfMtc
    /\ EnvInit
    /\ optFilter \in BOOLEAN
    /\ optCompare \in BOOLEAN
    /\ \E st \in {TmConstructed("A")} :
           /\ mtcModel = st.model
           /\ mtcListening = st.listening
           /\ mtcList = st.list
           /\ mtcProps = st.props
           /\ mtcFiltered = st.filtered
           /\ mtcSubs = st.subs
           /\ mirror = toArray(st.list)
    /\ mirrorOk = TRUE
    /\ emitted = <<>>
    /\ lastOp = "init"

\* the event bus calls this._onChange(change, m)
TmDeliverChange ==
    /\ bus # <<>>
    /\ Head(bus).type = "model"
    /\ LET e == Head(bus)
       IN  TmCommit(TM_onChange(TmState, e.change, e.model),
                    IF e.model = mtcModel THEN "onChange" ELSE "ignored", FALSE)
    /\ bus' = Tail(bus)
    /\ UNCHANGED <<modelA, valRank, valHidden, ops, pdVars, cwVars, otherVars>>

\* the event bus calls o.cb
TmDeliverItem ==
    /\ bus # <<>>
    /\ Head(bus).type = "item"
    /\ LET o == Head(bus).o
       IN  TmCommit(TM_itemCb(TmState, o),
                    IF mtcModel # "null" /\ getProps(mtcModel)[o.key] # None
                    THEN IF mtcSortTimeout THEN "itemChangePending"
                         ELSE "itemChange"
                    ELSE "ignored", FALSE)
    /\ bus' = Tail(bus)
    /\ UNCHANGED <<modelA, valRank, valHidden, ops, pdVars, cwVars, otherVars>>

\* setModel(model, noEvents)
TmSetModel ==
    /\ ops < MaxOps
    /\ \E m \in {"A", "B", "null"}, noEvents \in BOOLEAN :
         TmCommit(TM_setModel(TmState, m, noEvents),
                  IF m = mtcModel THEN "ignored" ELSE "setModel", noEvents)
    /\ ops' = ops + 1
    /\ UNCHANGED <<modelA, valRank, valHidden, bus, pdVars, cwVars, otherVars>>

\* refresh(key)
TmRefresh ==
    /\ ops < MaxOps
    /\ \E key \in Keys \cup {None} :
         TmCommit(TM_refresh(TmState, key),
                  IF mtcModel # "null" /\ mtcSortTimeout THEN "refreshPending"
                  ELSE "refresh", FALSE)
    /\ ops' = ops + 1
    /\ UNCHANGED <<modelA, valRank, valHidden, bus, pdVars, cwVars, otherVars>>

\* dispose()
TmDispose ==
    /\ ops < MaxOps
    /\ TmCommit(TM_dispose(TmState), "dispose", TRUE)
    /\ ops' = ops + 1
    /\ UNCHANGED <<modelA, valRank, valHidden, bus, pdVars, cwVars, otherVars>>

\* the timer runs one scheduled task, this._synchronize()
TmSynchronize ==
    /\ mtcTimerTasks > 0
    /\ TmCommit(TM_synchronize([TmState EXCEPT !.tasks = @ - 1]),
                "synchronize", FALSE)
    /\ UNCHANGED <<modelA, valRank, valHidden, bus, ops, pdVars, cwVars, otherVars>>

TmNext ==
    \/ EnvModelSet
    \/ EnvValueSetRank
    \/ EnvValueSetHidden
    \/ TmDeliverChange
    \/ TmDeliverItem
    \/ BusDrop
    \/ TmSetModel
    \/ TmRefresh
    \/ TmDispose
    \/ TmSynchronize

SpecTimer == TmInit /\ [][TmNext]_vars

(***************************************************************************)
(* Claims about ModelToCollection (timer version).                         *)
(***************************************************************************)
\* the containers the view tracks for its current model: those in this._list
\* or this._filtered that hold a property of the model
TrackedNow ==
    {o \in Elems(mtcList) \cup Conts(mtcFiltered) :
        mtcModel # "null" /\ getProps(mtcModel)[o.key] = o.value}

\* C10: once every notification has been delivered, the view has its callback
\* registered on exactly the observable values it tracks for its current
\* model; after setModel(other) or dispose() no callback is left on a value
\* of the previous model, visible or filtered out.
C10_Subscriptions ==
    Quiescent => mtcSubs = {o \in TrackedNow : IsObservable(o.value)}

\* C21: at most one resynchronization task is pending at any time, and
\* this.sortTimeout is set exactly while it is: item change notifications and
\* refresh() calls that arrive while a task is pending schedule no second one,
\* so that together they get one _synchronize run.
C21_OnePendingTask ==
    /\ mtcTimerTasks <= 1
    /\ mtcSortTimeout <=> mtcTimerTasks = 1

\* a refresh() or an item change notification has arrived while a task was
\* pending
C21_Witness ==
    /\ lastOp \in {"refreshPending", "itemChangePending"}
    /\ mtcTimerTasks = 1

PropKeys == 1..NumProps
PropVals == 1..NumPropVals
\* a key that this._modification does not have
Absent == -1

\* changed === null
NullChange == [old |-> <<>>, ism |-> "none"]

IsNullChange(ch) == DOMAIN ch.old = {} /\ ch.ism = "none"

\* Object.keys(this._modification)
ModKeys(mod) == {k \in PropKeys : mod[k] # Absent}

\* the partial property objects a caller passes: at most MaxSetKeys keys
PropObjects ==
    UNION {[S -> PropVals \cup {None}] :
              S \in {T \in SUBSET PropKeys : Cardinality(T) <= MaxSetKeys}}

\* _update(props), without a definition: returns changed in st.changed
MM_update(st, p) ==
    LET S == {k \in DOMAIN p : p[k] # st.props[k]}
    IN  [st EXCEPT !.props = [k \in PropKeys |-> IF k \in S THEN p[k] ELSE @[k]],
                   !.changed = [old |-> [k \in S |-> st.props[k]],
                                ism |-> "none"]]

\* _setIsModified(changed)
MM_setIsModified(st) ==
    LET S   == DOMAIN st.changed.old
        mod == [k \in PropKeys |->
                   IF k \in S
                   THEN IF st.props[k] = mmModel[k]
                           \/ (~mmModifiedOnNew /\ mmModel[k] = None)
                        THEN Absent
                        ELSE st.props[k]
                   ELSE st.mod[k]]
        newIsModified == ModKeys(mod) # {}
    IN  [st EXCEPT !.mod = mod,
                   !.isMod = newIsModified,
                   !.changed.ism = IF newIsModified # st.isMod
                                   THEN IF newIsModified THEN "false" ELSE "true"
                                   ELSE @]

\* set(props); given is FALSE for set(undefined)
MM_set(st, p, given) ==
    LET s1 == IF given THEN MM_update(st, p)
              ELSE [st EXCEPT !.changed = NullChange]
        s2 == MM_setIsModified(s1)
    IN  IF IsNullChange(s2.changed) THEN s2
        ELSE [s2 EXCEPT !.ev = Append(@, s2.changed)]

\* reset(prop); prop None is reset().  With a prop the test reads
\* this._modifications, a field that does not exist, and throws a TypeError
MM_reset(st, prop) ==
    IF prop # None THEN [st EXCEPT !.err = TRUE]
    ELSE MM_set(st, [k \in ModKeys(st.mod) |-> mmModel[k]], TRUE)

\* _onModelChange(changed)
MM_onModelChange(st, changed) ==
    LET take == {k \in DOMAIN changed : st.props[k] = changed[k]}
        drop == {k \in DOMAIN changed \ take : st.props[k] = mmModel[k]}
        s1   == [st EXCEPT !.mod = [k \in PropKeys |->
                                       IF k \in drop THEN Absent ELSE @[k]]]
    IN  MM_set(s1, [k \in take |-> mmModel[k]], take # {})

\* new ModifyModel(model, opt): opt.props is optProps when given
MM_constructed(optProps, given) ==
    LET st0 == [props |-> mmModel, mod |-> [k \in PropKeys |-> Absent],
                isMod |-> FALSE, changed |-> NullChange, ev |-> <<>>,
                err |-> FALSE]
    IN  IF given THEN MM_setIsModified(MM_update(st0, optProps)) ELSE st0

(***************************************************************************)
(* Specification of a ModifyModel and its underlying model.                *)
(***************************************************************************)
\* no patchDiff call is in progress
NoPatchDiff ==
    /\ pdA = <<>> /\ pdB = <<>> /\ pdPc = "idle" /\ pdQueue = <<>>
    /\ pdWork = <<>> /\ pdValid = TRUE /\ pdRemoves = 0 /\ pdAdds = 0

\* there is no ModelToCollection and none of its environment
NoView ==
    /\ modelA = <<>> /\ valRank = <<>> /\ valHidden = <<>> /\ bus = <<>>
    /\ optFilter = FALSE /\ optCompare = FALSE /\ mtcModel = "null"
    /\ mtcListening = "null" /\ mtcList = <<>> /\ mtcProps = <<>>
    /\ mtcFiltered = <<>> /\ mtcSubs = {}
    /\ mtcSortTimeout = FALSE /\ mtcFilteredNull = FALSE /\ mtcTimerTasks = 0
    /\ mirror = <<>> /\ mirrorOk = TRUE

MmState ==
    [props |-> mmProps, mod |-> mmModification, isMod |-> mmIsModified,
     changed |-> NullChange, ev |-> <<>>, err |-> FALSE]

\* the state a call leaves; arg is the prop handed to reset
MmCommit(st, op, arg) ==
    \E s \in {st} :
       /\ mmProps' = s.props
       /\ mmModification' = s.mod
       /\ mmIsModified' = s.isMod
       /\ mmThrown' = s.err
       /\ mmArg' = arg
       /\ emitted' = s.ev
       /\ lastOp' = op
       /\ UNCHANGED <<mmModifiedOnNew, mirror, mirrorOk>>

MmInit ==
    /\ NoWrapper
    /\ CollectionsAtRest
    /\ NoPatchDiff
    /\ NoView
    /\ NoIndexOfCall
    /\ NoModelWrapper
    /\ ops = 0
    /\ mmModel \in [PropKeys -> PropVals \cup {None}]
    /\ mmModifiedOnNew \in BOOLEAN
    /\ \E p \in PropObjects :
          \E st \in {MM_constructed(p, DOMAIN p # {})} :
              /\ mmProps = st.props
              /\ mmModification = st.mod
              /\ mmIsModified = st.isMod
    /\ mmBus = <<>>
    /\ mmArg = None
    /\ mmThrown = FALSE
    /\ emitted = <<>>
    /\ lastOp = "init"

MmOthers ==
    UNCHANGED <<modelA, valRank, valHidden, bus, mtcVars, pdVars, cwVars,
                ixVars, mwVars, colVars, ctmVars, jcVars>>

\* Model.set(props) on the underlying model: the properties that differ
\* change, and a 'change' event with their old values is emitted
MmModelSet ==
    /\ ops < MaxOps
    /\ \E p \in PropObjects :
         LET S == {k \in DOMAIN p : p[k] # mmModel[k]}
         IN  /\ S # {}
             /\ mmModel' = [k \in PropKeys |-> IF k \in S THEN p[k] ELSE mmModel[k]]
             /\ mmBus' = Append(mmBus, [k \in S |-> mmModel[k]])
    /\ ops' = ops + 1
    /\ lastOp' = "modelSet"
    /\ emitted' = <<>>
    /\ UNCHANGED <<mmProps, mmModification, mmIsModified, mmModifiedOnNew,
                   mmArg, mmThrown, mirror, mirrorOk>>
    /\ MmOthers

\* set(props)
MmSet ==
    /\ ops < MaxOps
    /\ \E p \in PropObjects : MmCommit(MM_set(MmState, p, TRUE), "set", None)
    /\ ops' = ops + 1
    /\ UNCHANGED <<mmModel, mmBus>>
    /\ MmOthers

\* reset(prop) and reset()
MmReset ==
    /\ ops < MaxOps
    /\ \E prop \in PropKeys \cup {None} :
         MmCommit(MM_reset(MmState, prop),
                  IF prop = None THEN "reset" ELSE "resetProp", prop)
    /\ ops' = ops + 1
    /\ UNCHANGED <<mmModel, mmBus>>
    /\ MmOthers

\* the event bus calls this._onModelChange(changed)
MmDeliver ==
    /\ mmBus # <<>>
    /\ MmCommit(MM_onModelChange(MmState, Head(mmBus)), "onModelChange", None)
    /\ mmBus' = Tail(mmBus)
    /\ UNCHANGED <<mmModel, ops>>
    /\ MmOthers

MmNext == MmModelSet \/ MmSet \/ MmReset \/ MmDeliver

SpecModify == MmInit /\ [][MmNext]_vars

(***************************************************************************)
(* Claims about ModifyModel.                                               *)
(***************************************************************************)
\* property k differs from the underlying model in the way that counts: a
\* property the model does not have counts only with opt.modifiedOnNew
MmDiffers(k) ==
    /\ mmProps[k] # mmModel[k]
    /\ (mmModel[k] # None \/ mmModifiedOnNew)

\* C26: once every change notification of the underlying model has been
\* delivered, isModified is true exactly when getModifications() is not
\* null, and getModifications() holds exactly the properties whose value
\* differs from the underlying model's.
C26_ModificationsExact ==
    mmBus = <<>> =>
        /\ mmIsModified <=> (ModKeys(mmModification) # {})
        /\ \A k \in PropKeys : (mmModification[k] # Absent) <=> MmDiffers(k)

\* C27: on a change notification of the underlying model for property k, a
\* ModifyModel in which k is not modified takes the model's value for k; one
\* in which k is modified keeps its own value, and k stops being a
\* modification if the model's value equals it.
C27_OnModelChange ==
    [][lastOp' = "onModelChange" =>
          \A k \in DOMAIN Head(mmBus) :
              IF mmModification[k] = Absent
              THEN mmProps'[k] = mmModel[k]
              ELSE /\ mmProps'[k] = mmProps[k]
                   /\ (mmModel[k] = mmProps[k] => mmModification'[k] = Absent)]_vars

\* C28: reset() called with no notification in flight leaves every property
\* that was modified equal to the underlying model's value, no modification
\* and isModified false; reset(prop) does so for prop alone and leaves the
\* other properties and modifications as they are.
C28_Reset ==
    [][/\ (lastOp' = "reset" /\ mmBus = <<>>) =>
             /\ \A k \in ModKeys(mmModification) : mmProps'[k] = mmModel[k]
             /\ ModKeys(mmModification') = {}
             /\ ~mmIsModified'
       /\ (lastOp' = "resetProp" /\ mmBus = <<>>) =>
             /\ mmModification[mmArg'] # Absent => mmProps'[mmArg'] = mmModel[mmArg']
             /\ mmModification'[mmArg'] = Absent
             /\ \A j \in PropKeys \ {mmArg'} :
                    /\ mmModification'[j] = mmModification[j]
                    /\ mmProps'[j] = mmProps[j]
             /\ mmIsModified' <=> (ModKeys(mmModification') # {})]_vars

(***************************************************************************)
(* ModelWrapper (src/src/CollectionWrapper.js 387-600) over model A or the *)
(* plain object B, in the environment of the ModelToCollection: the        *)
(* property values, their rank and hidden flag, and the event bus.  The    *)
(* base class is the Model with this._props.  A handler is a function of   *)
(*   st = [model, listening, items, subs, props, o, c, ev]                 *)
(* where o is the property object the handler builds, c the container      *)
(* _upsertItem has returned and ev the 'change' events emitted.            *)
(***************************************************************************)
\* a mapped key that is null
NullKey == 0

\* opt.keyMap: a key made of the property key and the value's rank
KeyMap(k, v) == 10 * k + valRank[v]

\* opt.map: a primitive read off the value (its rank)
Map(k, v) == 100 + valRank[v]

\* the keys this._props can have
MKeys == Keys \cup {10 * k + r : k \in Keys, r \in 0..MaxRank}

\* no entry of this._items
MwNoItem == [value |-> 0, mkey |-> 0, id |-> 0]

\* this._items is created: opt.filter, opt.map or opt.keyMap was given
HasItems == optFilter \/ mwMap \/ mwKeyMap

\* the identity of a new container that carries a callback
MW_newId(st, k, v) ==
    LET used == {o.id : o \in {x \in st.subs \cup BusConts :
                                   x.key = k /\ x.value = v}}
    IN  CHOOSE n \in 1..(Cardinality(used) + 1) :
            n \notin used /\ \A m \in 1..(n - 1) : m \in used

\* _removeItem(k)
MW_removeItem(st, k) ==
    LET c == st.items[k]
    IN  IF c = MwNoItem THEN st
        ELSE [st EXCEPT !.subs = @ \ {[key |-> k, value |-> c.value, id |-> c.id]},
                        !.items[k] = MwNoItem]

RECURSIVE MW_removeItemsLoop(_, _)
MW_removeItemsLoop(st, keys) ==
    IF keys = {} THEN st
    ELSE LET k == CHOOSE x \in keys : \A y \in keys : x <= y
         IN  MW_removeItemsLoop(MW_removeItem(st, k), keys \ {k})

\* _removeItems()
MW_removeItems(st) ==
    IF HasItems THEN MW_removeItemsLoop(st, {k \in Keys : st.items[k] # MwNoItem})
    ELSE st

\* _upsertItem(k, v, mk); the container returned is left in st.c.  A
\* container with another value is handed to _removeItem as the key, which
\* finds no entry under it: the container keeps its callback
MW_upsertItem(st, k, v, mk) ==
    IF ~HasItems THEN [st EXCEPT !.c = MwNoItem]
    ELSE LET c == st.items[k]
         IN  IF c # MwNoItem /\ c.value = v THEN [st EXCEPT !.c = c]
             ELSE IF v = None THEN [st EXCEPT !.c = c]
             ELSE LET n == [value |-> v, mkey |-> mk,
                            id |-> IF IsObservable(v) THEN MW_newId(st, k, v)
                                   ELSE 0]
                  IN  [st EXCEPT !.items[k] = n,
                                 !.subs = IF IsObservable(v)
                                          THEN @ \cup {[key |-> k, value |-> v,
                                                        id |-> n.id]}
                                          ELSE @,
                                 !.c = n]

\* _prep(o, k, v), o being st.o
MW_prep(st, k, v) ==
    LET isDefined == v # None
        mk   == IF mwKeyMap
                THEN IF isDefined THEN KeyMap(k, v) ELSE NullKey
                ELSE k
        pass == isDefined /\ mk # NullKey /\ Show(k, v)
        v2   == IF pass /\ mwMap THEN Map(k, v) ELSE v
        o1   == IF pass THEN (mk :> v2) @@ st.o
                ELSE IF mk # NullKey /\ mk \notin DOMAIN st.o
                THEN (mk :> None) @@ st.o
                ELSE st.o
        s1   == MW_upsertItem([st EXCEPT !.o = o1], k, v2, mk)
        c    == s1.c
    IN  IF c # MwNoItem /\ c.mkey # mk
        THEN [s1 EXCEPT !.o = IF c.mkey # NullKey /\ c.mkey \notin DOMAIN @
                              THEN (c.mkey :> None) @@ @
                              ELSE @,
                        !.items[k].mkey = mk]
        ELSE s1

RECURSIVE MW_prepAll(_, _, _)
\* for (let k in ...) this._prep(o, k, p[k])
MW_prepAll(st, p, keys) ==
    IF keys = {} THEN st
    ELSE LET k == CHOOSE x \in keys : \A y \in keys : x <= y
         IN  MW_prepAll(MW_prep(st, k, p[k]), p, keys \ {k})

\* Model._update(props, emit, reset) of the base class, on this._props
MW_update(st, o, emit, reset) ==
    LET had == {mk \in MKeys : st.props[mk] # None}
        o2  == IF reset
               THEN [mk \in DOMAIN o \cup had |->
                        IF mk \in DOMAIN o THEN o[mk] ELSE None]
               ELSE o
        S   == {mk \in DOMAIN o2 : st.props[mk] # o2[mk]}
    IN  [st EXCEPT !.props = [mk \in MKeys |-> IF mk \in S THEN o2[mk] ELSE @[mk]],
                   !.ev = IF S # {} /\ emit
                          THEN Append(@, [mk \in S |-> st.props[mk]])
                          ELSE @]

\* setModel(model, noEvents)
MW_setModel(st, m, noEvents) ==
    IF m = st.model THEN st
    ELSE LET s1 == MW_removeItems(st)
             s2 == [s1 EXCEPT !.listening = IF ModelHasOn(m) THEN m ELSE "null",
                              !.model = m, !.o = <<>>]
             p  == getProps(m)
             s3 == MW_prepAll(s2, p, {k \in Keys : p[k] # None})
         IN  MW_update(s3, s3.o, ~noEvents, st.model \in {"A", "B"})

\* _onChange(change, m) that does not look at m
MW_onChangeAnyModel(st, change, m) ==
    LET s1 == MW_prepAll([st EXCEPT !.o = <<>>], getProps(m), DOMAIN change)
    IN  MW_update(s1, s1.o, TRUE, FALSE)

\* _onChange(change, m)
MW_onChange(st, change, m) ==
    IF m # st.model THEN st
    ELSE LET s1 == MW_prepAll([st EXCEPT !.o = <<>>], getProps(m), DOMAIN change)
         IN  MW_update(s1, s1.o, TRUE, FALSE)

\* _onItemChange(c)
MW_onItemChange(st, c) ==
    IF st.model = "null" \/ getProps(st.model)[c.key] # c.value THEN st
    ELSE LET s1 == MW_prep([st EXCEPT !.o = <<>>], c.key, c.value)
         IN  MW_update(s1, s1.o, TRUE, FALSE)

\* the callback c.cb that _upsertItem registers on an observable value
MW_itemCb(st, c) ==
    IF st.model # "null" /\ getProps(st.model)[c.key] # None
    THEN MW_onItemChange(st, c)
    ELSE st

\* dispose()
MW_dispose(st) ==
    [MW_removeItems(st) EXCEPT !.listening = "null", !.model = "null"]

(***************************************************************************)
(* Specification of a ModelWrapper in its environment.                     *)
(***************************************************************************)
MwState ==
    [model |-> mwModel, listening |-> mwListening, items |-> mwItems,
     subs |-> mwSubs, props |-> mwProps, o |-> <<>>, c |-> MwNoItem,
     ev |-> <<>>]

\* the state a handler leaves
MwCommit(st, op) ==
    \E s \in {st} :
       /\ mwModel' = s.model
       /\ mwListening' = s.listening
       /\ mwItems' = s.items
       /\ mwSubs' = s.subs
       /\ mwProps' = s.props
       /\ emitted' = s.ev
       /\ lastOp' = op
       /\ UNCHANGED <<mwMap, mwKeyMap, mirror, mirrorOk>>

\* the state after new ModelWrapper(model, opt)
MwConstructed(model) ==
    MW_setModel([model |-> "none", listening |-> "null",
                 items |-> [k \in Keys |-> MwNoItem], subs |-> {},
                 props |-> [mk \in MKeys |-> None], o |-> <<>>,
                 c |-> MwNoItem, ev |-> <<>>], model, TRUE)

MwInit ==
    /\ NoWrapper
    /\ CollectionsAtRest
    /\ NoPatchDiff
    /\ NoIndexOfCall
    /\ NoModifyModel
    /\ EnvInit
    /\ optFilter \in BOOLEAN
    /\ mwMap \in BOOLEAN
    /\ mwKeyMap \in BOOLEAN
    /\ optCompare = FALSE /\ mtcModel = "null"
    /\ mtcListening = "null" /\ mtcList = <<>> /\ mtcProps = <<>>
    /\ mtcFiltered = <<>> /\ mtcSubs = {}
    /\ mtcSortTimeout = FALSE /\ mtcFilteredNull = FALSE /\ mtcTimerTasks = 0
    /\ mirror = <<>> /\ mirrorOk = TRUE
    /\ \E st \in {MwConstructed("A")} :
           /\ mwModel = st.model
           /\ mwListening = st.listening
           /\ mwItems = st.items
           /\ mwSubs = st.subs
           /\ mwProps = st.props
    /\ emitted = <<>>
    /\ lastOp = "init"

MwOthers ==
    UNCHANGED <<mtcVars, pdVars, cwVars, ixVars, mmVars, colVars, ctmVars,
                jcVars>>

\* what the wrapper leaves alone in a step of its environment
MwUntouched ==
    UNCHANGED <<mwMap, mwKeyMap, mwModel, mwListening, mwItems, mwSubs,
                mwProps, mirror, mirrorOk>>

\* Model.set(props) on model A, also reached through wrapper.set(props)
MwModelSet ==
    /\ ops < MaxOps
    /\ \E S \in SUBSET Keys :
         /\ S # {}
         /\ Cardinality(S) <= MaxSetKeys
         /\ \E nv \in [S -> Values \cup {None}] :
              /\ \A k \in S : nv[k] \in KeyValues(k) \cup {None}
              /\ \A k \in S : nv[k] # modelA[k]
              /\ modelA' = [k \in Keys |-> IF k \in S THEN nv[k] ELSE modelA[k]]
              /\ bus' = IF mwListening = "A"
                        THEN Append(bus, [type |-> "model", model |-> "A",
                                          change |-> [k \in S |-> modelA[k]],
                                          o |-> NoCont])
                        ELSE bus
    /\ ops' = ops + 1
    /\ lastOp' = "set"
    /\ emitted' = <<>>
    /\ UNCHANGED <<valRank, valHidden>>
    /\ MwUntouched
    /\ MwOthers

RECURSIVE MwEnqueue(_)
\* one 'change' event for each callback in S, in the order of registration
\* keys
MwEnqueue(S) ==
    IF S = {} THEN <<>>
    ELSE LET o == CHOOSE x \in S :
                      \A y \in S : x.key < y.key \/ (x.key = y.key /\ x.id <= y.id)
         IN  <<[type |-> "item", model |-> "null", change |-> <<>>, o |-> o]>>
             \o MwEnqueue(S \ {o})

\* the 'change' events a value emits: one for each callback registered on it
MwItemEvents(v) == MwEnqueue({o \in mwSubs : o.value = v})

\* set({ rank }) on an observable value
MwValueSetRank ==
    /\ ops < MaxOps
    /\ \E v \in Values, r \in 0..MaxRank :
         /\ IsObservable(v)
         /\ r # valRank[v]
         /\ valRank' = [valRank EXCEPT ![v] = r]
         /\ bus' = bus \o MwItemEvents(v)
    /\ ops' = ops + 1
    /\ lastOp' = "valueSet"
    /\ emitted' = <<>>
    /\ UNCHANGED <<modelA, valHidden>>
    /\ MwUntouched
    /\ MwOthers

\* set({ hidden }) on an observable value
MwValueSetHidden ==
    /\ ops < MaxOps
    /\ \E v \in Values :
         /\ IsObservable(v)
         /\ valHidden' = [valHidden EXCEPT ![v] = ~@]
         /\ bus' = bus \o MwItemEvents(v)
    /\ ops' = ops + 1
    /\ lastOp' = "valueSet"
    /\ emitted' = <<>>
    /\ UNCHANGED <<modelA, valRank>>
    /\ MwUntouched
    /\ MwOthers

\* the event bus calls this._onChange(change, m)
MwDeliverChange ==
    /\ bus # <<>>
    /\ Head(bus).type = "model"
    /\ LET e == Head(bus)
       IN  MwCommit(MW_onChange(MwState, e.change, e.model),
                    IF e.model = mwModel THEN "onChange" ELSE "staleChange")
    /\ bus' = Tail(bus)
    /\ UNCHANGED <<modelA, valRank, valHidden, ops>>
    /\ MwOthers

\* the event bus calls c.cb
MwDeliverItem ==
    /\ bus # <<>>
    /\ Head(bus).type = "item"
    /\ LET o == Head(bus).o
       IN  MwCommit(MW_itemCb(MwState, o),
                    IF mwModel # "null" /\ getProps(mwModel)[o.key] = o.value
                    THEN "itemChange" ELSE "staleItem")
    /\ bus' = Tail(bus)
    /\ UNCHANGED <<modelA, valRank, valHidden, ops>>
    /\ MwOthers

\* the event bus skips an event whose handler has been removed since
MwBusDrop ==
    /\ bus # <<>>
    /\ LET e == Head(bus)
       IN  IF e.type = "model" THEN mwListening # e.model
           ELSE e.o \notin mwSubs
    /\ bus' = Tail(bus)
    /\ lastOp' = "drop"
    /\ emitted' = <<>>
    /\ UNCHANGED <<modelA, valRank, valHidden, ops>>
    /\ MwUntouched
    /\ MwOthers

\* setModel(model, noEvents)
MwSetModel ==
    /\ ops < MaxOps
    /\ \E m \in {"A", "B", "null"}, noEvents \in BOOLEAN :
         MwCommit(MW_setModel(MwState, m, noEvents),
                  IF m = mwModel THEN "ignored" ELSE "setModel")
    /\ ops' = ops + 1
    /\ UNCHANGED <<modelA, valRank, valHidden, bus>>
    /\ MwOthers

\* dispose()
MwDispose ==
    /\ ops < MaxOps
    /\ MwCommit(MW_dispose(MwState), "dispose")
    /\ ops' = ops + 1
    /\ UNCHANGED <<modelA, valRank, valHidden, bus>>
    /\ MwOthers

MwNext ==
    \/ MwModelSet
    \/ MwValueSetRank
    \/ MwValueSetHidden
    \/ MwDeliverChange
    \/ MwDeliverItem
    \/ MwBusDrop
    \/ MwSetModel
    \/ MwDispose

SpecWrap == MwInit /\ [][MwNext]_vars

(***************************************************************************)
(* Claims about ModelWrapper.                                              *)
(***************************************************************************)
\* the properties the wrapper is to show for its model: keyMap(k, v) ->
\* map(k, v) for the defined properties that pass the filter
MwExpected ==
    LET p == getProps(mwModel)
        shown == {k \in Keys : p[k] # None /\ Show(k, p[k])}
        keyOf(k) == IF mwKeyMap THEN KeyMap(k, p[k]) ELSE k
    IN  [mk \in MKeys |->
            IF \E k \in shown : keyOf(k) = mk
            THEN LET k == CHOOSE x \in shown : keyOf(x) = mk
                 IN  IF mwMap THEN Map(k, p[k]) ELSE p[k]
            ELSE None]

\* C29: while the wrapper wraps a model and every notification has been
\* delivered, wrapper.props holds exactly the entries keyMap(k, v) ->
\* map(k, v) of the model's defined properties that pass the filter.
C29_PropsExact ==
    (mwModel \in {"A", "B"} /\ bus = <<>>) => mwProps = MwExpected

\* C30: a change notification from a model the wrapper no longer wraps, or
\* from a value that is not the current model's value of its property,
\* leaves wrapper.props as it is and makes the wrapper emit nothing.
C30_StaleNotifications ==
    [][lastOp' \in {"staleChange", "staleItem"}
          => mwProps' = mwProps /\ emitted' = <<>>]_vars

\* a notification of model A has reached the wrapper after setModel(B)
C30_Witness ==
    /\ lastOp = "staleChange"
    /\ mwModel = "B"
    /\ mwProps = MwExpected

\* C31: after dispose() the wrapper holds no change subscription, neither on
\* the wrapped model nor on a property value it has observed, values that
\* were replaced or removed before dispose() included.
C31_NoSubscriptionAfterDispose ==
    lastOp = "dispose" => (mwSubs = {} /\ mwListening = "null")

(***************************************************************************)
(* Further claims about the ModelToCollection of part_004.                 *)
(***************************************************************************)
\* C37: mutations of the wrapped model pile up before their notifications
\* are delivered; each handled notification leaves the mirror of the
\* replayed events equal to toArray() with every index valid, and once the
\* last pending notification is handled toArray() is the from-scratch
\* filtered and sorted list of the model's current properties.
C37_PendingNotifications ==
    lastOp = "onChange" =>
        /\ mirrorOk
        /\ mirror = toArray(mtcList)
        /\ Quiescent => toArray(mtcList) = FromScratch

\* a notification was handled while a later one of the same model waits:
\* the handler has read properties that were mutated again after the
\* notification was emitted
C37_Witness ==
    /\ lastOp = "onChange"
    /\ bus # <<>>
    /\ \A i \in 1..Len(bus) : bus[i].type = "model" /\ bus[i].model = mtcModel
    /\ \E k \in DOMAIN Head(bus).change : Head(bus).change[k] # modelA[k]
    /\ emitted # <<>>
    /\ mirrorOk
    /\ mirror = toArray(mtcList)

\* what a getter of the view can return: an item of the model, one of the
\* view's containers { key, value, cb }, or undefined
JsItem(v) == [tag |-> "item", v |-> v, o |-> NoCont]
JsContainer(o) == [tag |-> "container", v |-> None, o |-> o]
JsUndefined == [tag |-> "undefined", v |-> None, o |-> NoCont]

RECURSIVE M2C_indexOfFrom(_, _, _)
\* indexOf(item): for (i = 0; i < length; i++) if (list[i].value === item)
M2C_indexOfFrom(list, x, i) ==
    IF i >= Len(list) THEN -1
    ELSE IF x.tag = "item" /\ list[i + 1].value = x.v THEN i
    ELSE M2C_indexOfFrom(list, x, i + 1)

M2C_indexOf(list, x) == M2C_indexOfFrom(list, x, 0)

\* atIndex(idx): this._list[idx], or undefined when idx is out of bounds
M2C_atIndex(list, idx) ==
    IF idx < 0 \/ idx >= Len(list) THEN JsUndefined
    ELSE JsContainer(list[idx + 1])

\* C39: atIndex(i) is the item toArray()[i] for 0 <= i < length, so that
\* indexOf(atIndex(i)) = i, and undefined for every other index.
C39_AtIndex ==
    \A i \in (-1)..(Len(mtcList) + 1) :
        IF 0 <= i /\ i < Len(mtcList)
        THEN /\ M2C_atIndex(mtcList, i) = JsItem(toArray(mtcList)[i + 1])
             /\ M2C_indexOf(mtcList, M2C_atIndex(mtcList, i)) = i
        ELSE M2C_atIndex(mtcList, i) = JsUndefined

\* the positions of this._list that hold a container of key k
ListPositions(k) == {i \in 1..Len(mtcList) : mtcList[i].key = k}

\* C40: with a filter, each tracked key (key of this._props) has its
\* container in exactly one of this._list and this._filtered, no container
\* is in the list twice, neither structure holds a container of an
\* untracked key, and length is the number of tracked keys that are visible.
C40_Partition ==
    optFilter =>
        /\ \A k \in Keys :
              IF mtcProps[k] # NoCont
              THEN \/ /\ mtcFiltered[k] = NoCont
                      /\ Cardinality(ListPositions(k)) = 1
                      /\ \A i \in ListPositions(k) : mtcList[i] = mtcProps[k]
                   \/ /\ mtcFiltered[k] = mtcProps[k]
                      /\ ListPositions(k) = {}
              ELSE mtcFiltered[k] = NoCont /\ ListPositions(k) = {}
        /\ Len(mtcList) =
              Cardinality({k \in Keys : mtcProps[k] # NoCont
                                        /\ mtcFiltered[k] = NoCont})

\* a change of an observable value has moved its container from the
\* filtered-out table into the list, next to another visible one, while a
\* third key stays hidden
C40_Witness ==
    /\ optFilter
    /\ lastOp = "itemChange"
    /\ emitted # <<>>
    /\ emitted[1].event = "add"
    /\ Len(mtcList) >= 2
    /\ \E k \in Keys : mtcFiltered[k] # NoCont

(***************************************************************************)
(* A further claim about the CollectionWrapper.                            *)
(***************************************************************************)
\* C38: with a compare function, a source remove notification for a tracked
\* item x removes the container of x itself from this._list and, when x is
\* shown, reports the model of x in the remove event, whatever the sort
\* position of x has become.
C38_RemoveItself ==
    [][(/\ optCompare
        /\ bus # <<>>
        /\ Head(bus).type = "remove"
        /\ lastOp' \in {"onRemove", "throw"}
        /\ Head(bus).item \in CwTracked)
       => /\ lastOp' = "onRemove"
          /\ cwList' = SelectSeq(cwList,
                           LAMBDA c : ItemOf(c.m) # Head(bus).item)
          /\ \A i \in 1..Len(emitted') :
                 emitted'[i].item = MapItem(Head(bus).item)]_vars

(***************************************************************************)
(* Further claims about the timer version of the ModelToCollection.        *)
(***************************************************************************)
\* C35: with a filter, on a view that was not disposed: once every
\* notification of the model set by setModel is delivered and no
\* resynchronization is pending, toArray() is the from-scratch filtered and
\* sorted list of the model's current properties; what was filtered out
\* under the previous model plays no part.
C35_SetModelFromScratch ==
    (/\ optFilter
     /\ mtcModel \in {"A", "B"}
     /\ ~mtcFilteredNull
     /\ Quiescent
     /\ ~mtcSortTimeout)
    => toArray(mtcList) = FromScratch

\* the step in which the timer runs a scheduled task; TmSynchronize is the
\* only action that takes a task from the timer
TimerTaskRuns ==
    /\ mtcTimerTasks > 0
    /\ mtcTimerTasks' = mtcTimerTasks - 1

\* setTimeout(() => this._synchronize(), 0): the event loop runs a scheduled
\* task in the end, whatever else goes on (weak fairness of the timer step)
SpecTimerFair == SpecTimer /\ WF_mtcTimerTasks(TimerTaskRuns)

\* C36: a pending resynchronization task of a view that is not disposed
\* runs in the end; right after a run on a view with a model the list is
\* sorted by compare, and the events of the run, replayed in order on the
\* list as it was before the run, give the list after the run.
C36_Resynchronization ==
    /\ (mtcTimerTasks > 0 /\ mtcModel # "null") ~> (lastOp = "synchronize")
    /\ [][(lastOp' = "synchronize" /\ mtcModel # "null")
           => /\ IsSorted(mtcList')
              /\ Replay([arr |-> toArray(mtcList), ok |-> TRUE], emitted')
                 = [arr |-> toArray(mtcList'), ok |-> TRUE]]_vars

\* a run has moved an item: it emitted a remove and an add
C36_Witness ==
    /\ lastOp = "synchronize"
    /\ mtcModel # "null"
    /\ Len(emitted) >= 2
    /\ IsSorted(mtcList)

(***************************************************************************)
(* Collection (src/src/Collection.js) on its SortedMap.  An item is its id *)
(* and valRank[item] is its sortOrder; opt.compare, when given, is the     *)
(* exported sortOrderCompare.                                              *)
(***************************************************************************)
\* sortOrderCompare(a, b)
sortOrderCompare(a, b) == valRank[a] - valRank[b]

RECURSIVE SM_binarySearchLoop(_, _, _, _)
\* array.binarySearch(list, value, compare): while (l <= h) { ... } return ~l
SM_binarySearchLoop(list, value, l, h) ==
    IF l > h THEN -l - 1
    ELSE LET m == (l + h) \div 2
             c == sortOrderCompare(list[m + 1], value)
         IN  IF c < 0 THEN SM_binarySearchLoop(list, value, m + 1, h)
             ELSE IF c > 0 THEN SM_binarySearchLoop(list, value, l, m - 1)
             ELSE m

\* array.binaryInsert(list, value, compare, true): the value goes where the
\* search has ended, duplicates allowed
SM_binaryInsert(list, value) ==
    LET i == SM_binarySearchLoop(list, value, 0, Len(list) - 1)
        idx == IF i >= 0 THEN i ELSE -i - 1
    IN  [list |-> SpliceIn(list, idx, value), idx |-> idx]

\* list.add(key, value, idx) of the SortedMap; idx = NoIndex is an idx that
\* is not a number
SM_add(sm, key, value, idx) ==
    IF key \in sm.map THEN [sm EXCEPT !.thrown = TRUE]
    ELSE IF sm.compare
         THEN LET r == SM_binaryInsert(sm.list, value)
              IN  [sm EXCEPT !.map = @ \cup {key}, !.list = r.list,
                             !.idx = r.idx]
         ELSE IF idx = NoIndex \/ idx >= Len(sm.list)
              THEN [sm EXCEPT !.map = @ \cup {key}, !.idx = Len(sm.list),
                              !.list = Append(@, value)]
              ELSE IF idx <= 0
                   THEN [sm EXCEPT !.map = @ \cup {key}, !.idx = 0,
                                   !.list = <<value>> \o @]
                   ELSE [sm EXCEPT !.map = @ \cup {key}, !.idx = idx,
                                   !.list = SpliceIn(@, idx, value)]

RECURSIVE SM_indexOfFrom(_, _, _)
\* list.indexOf(value)
SM_indexOfFrom(list, value, i) ==
    IF i > Len(list) THEN -1
    ELSE IF list[i] = value THEN i - 1
    ELSE SM_indexOfFrom(list, value, i + 1)

\* list.remove(key) of the SortedMap
SM_remove(sm, key) ==
    IF key \notin sm.map THEN [sm EXCEPT !.idx = -1]
    ELSE LET idx == IF sm.compare
                    THEN SM_binarySearchLoop(sm.list, key, 0, Len(sm.list) - 1)
                    ELSE SM_indexOfFrom(sm.list, key, 1)
         IN  [sm EXCEPT !.map = @ \ {key}, !.idx = idx,
                        !.list = IF idx >= 0 THEN SpliceOut(@, idx) ELSE @]

\* the SortedMap a call starts on
ColState ==
    [compare |-> colCompare, list |-> colList, map |-> colMap, idx |-> -1,
     thrown |-> FALSE, ev |-> <<>>]

\* _addItem(item, emit, idx)
COL_addItem(sm, item, emit, idx) ==
    LET r == SM_add(sm, item, item, idx)
    IN  IF r.thrown \/ ~emit THEN r
        ELSE [r EXCEPT !.ev = Append(@, [event |-> "add", item |-> item,
                                          idx |-> r.idx])]

\* remove(id)
COL_remove(sm, id) ==
    IF id \notin sm.map THEN [sm EXCEPT !.idx = -1]
    ELSE LET r == SM_remove(sm, id)
         IN  IF r.idx >= 0
             THEN [r EXCEPT !.ev = Append(@, [event |-> "remove", item |-> id,
                                               idx |-> r.idx])]
             ELSE r

\* removeAtIndex(idx)
COL_removeAtIndex(sm, idx) ==
    IF idx < 0 \/ idx >= Len(sm.list) THEN [sm EXCEPT !.thrown = TRUE]
    ELSE LET item == sm.list[idx + 1]
             r == SM_remove(sm, item)
         IN  [r EXCEPT !.ev = Append(@, [event |-> "remove", item |-> item,
                                          idx |-> idx])]

RECURSIVE COL_constructor(_, _)
\* for (let item of opt.data) this._addItem(item, false)
COL_constructor(sm, data) ==
    IF data = <<>> THEN sm
    ELSE COL_constructor(COL_addItem(sm, Head(data), FALSE, NoIndex), Tail(data))

\* the arrays of distinct items opt.data is drawn from
ColData ==
    {q \in SeqsUpTo(Values, NumVals - 1) :
        \A i, j \in 1..Len(q) : i # j => q[i] # q[j]}

\* there is no ModelToCollection
NoMtc ==
    /\ optFilter = FALSE /\ optCompare = FALSE /\ mtcModel = "null"
    /\ mtcListening = "null" /\ mtcList = <<>> /\ mtcProps = <<>>
    /\ mtcFiltered = <<>> /\ mtcSubs = {}
    /\ mtcSortTimeout = FALSE /\ mtcFilteredNull = FALSE /\ mtcTimerTasks = 0

ColInit ==
    /\ NoWrapper
    /\ NoPatchDiff
    /\ NoMtc
    /\ NoIndexOfCall /\ NoModifyModel /\ NoModelWrapper
    /\ NoCollectionToModel /\ NoJoinedCollection
    /\ modelA = <<>> /\ valHidden = <<>> /\ bus = <<>> /\ ops = 0
    /\ valRank \in [Values -> 0..MaxRank]
    /\ colCompare \in BOOLEAN
    /\ \E data \in ColData :
          \E sm \in {COL_constructor([compare |-> colCompare, list |-> <<>>,
                                      map |-> {}, idx |-> -1, thrown |-> FALSE,
                                      ev |-> <<>>], data)} :
              /\ colList = sm.list
              /\ colMap = sm.map
              /\ mirror = sm.list
    /\ mirrorOk = TRUE
    /\ emitted = <<>>
    /\ lastOp = "init"

\* what a call leaves: the SortedMap, the events and the mirror they are
\* replayed on
ColCommit(sm, op) ==
    /\ colList' = sm.list
    /\ colMap' = sm.map
    /\ emitted' = sm.ev
    /\ \E m \in {Replay([arr |-> mirror, ok |-> mirrorOk], sm.ev)} :
          mirror' = m.arr /\ mirrorOk' = m.ok
    /\ lastOp' = IF sm.thrown THEN "throw" ELSE op
    /\ ops' = ops + 1
    /\ UNCHANGED <<colCompare, modelA, valRank, valHidden, bus, mtcVars,
                   pdVars, cwVars, ixVars, mmVars, mwVars, ctmVars, jcVars>>

\* collection.add(item, idx)
ColAdd ==
    /\ ops < MaxOps
    /\ \E item \in Values, idx \in {NoIndex} \cup (-1..NumVals) :
          ColCommit(COL_addItem(ColState, item, TRUE, idx), "add")

\* collection.remove(id)
ColRemove ==
    /\ ops < MaxOps
    /\ \E id \in Values : ColCommit(COL_remove(ColState, id), "remove")

\* collection.removeAtIndex(idx)
ColRemoveAtIndex ==
    /\ ops < MaxOps
    /\ \E idx \in -1..NumVals :
          ColCommit(COL_removeAtIndex(ColState, idx), "removeAtIndex")

ColNext == ColAdd \/ ColRemove \/ ColRemoveAtIndex

SpecCollection == ColInit /\ [][ColNext]_vars

\* C33: whatever the calls and with or without a compare function, the add
\* and remove events emitted so far, replayed on a mirror of the initial
\* toArray(), give the current toArray(): every add event carries the index
\* the item was inserted at and every remove event the index the removed
\* item had.
C33_EventsReplay == mirrorOk /\ mirror = colList

(***************************************************************************)
(* CollectionToModel (src/src/CollectionToModel.js) on a Collection        *)
(* without compare, as in its test: keyCallback is item => item.id, and    *)
(* the 'add' and 'remove' events of the collection wait in the bus.  The   *)
(* wrapper keeps the collection it was constructed on until it is          *)
(* disposed.                                                               *)
(***************************************************************************)
\* this._keyCallback(v)
CTM_keyCallback(v) == v

\* this._map(v): opt.map, v => v by default
CTM_map(v) == IF ctmMap THEN v + NumVals ELSE v

\* this._props after delete this._props
CtmDeleted == <<>>

\* the instance state the methods work on
CtmState ==
    [collection |-> ctmCollection, listening |-> ctmListening,
     props |-> ctmProps, ev |-> <<>>, thrown |-> FALSE]

\* the keys k of o with o[k] !== this._props[k] and the keys of this._props
\* that o does not have
CtmChanged(props, o) == {k \in DOMAIN o : o[k] # props[k]}

\* setCollection(collection, noEvents); items is what iterating the
\* collection yields
CTM_setCollection(st, collection, items, noEvents) ==
    IF st.collection = collection THEN st
    ELSE LET off == [st EXCEPT !.listening = FALSE, !.collection = collection]
             o == [k \in Values |->
                      IF \E i \in 1..Len(items) : CTM_keyCallback(items[i]) = k
                      THEN CTM_map(k) ELSE None]
         IN  IF collection = "null" THEN [off EXCEPT !.thrown = TRUE]
             ELSE IF st.props = CtmDeleted
             THEN IF items # <<>> THEN [off EXCEPT !.thrown = TRUE]
                  ELSE [off EXCEPT !.listening = TRUE,
                                   !.ev = IF noEvents THEN <<>>
                                          ELSE <<[event |-> "change",
                                                  change |-> <<>>]>>]
             ELSE [off EXCEPT
                      !.props = o,
                      !.listening = TRUE,
                      !.ev = IF noEvents THEN <<>>
                             ELSE <<[event |-> "change",
                                     change |-> [k \in CtmChanged(st.props, o)
                                                    |-> st.props[k]]]>>]

\* _onAddRemove(isAdd, e) that keeps the property of a removed item
CTM_onAddRemoveKeep(st, isAdd, e) ==
    IF st.collection = "null" THEN st
    ELSE IF st.props = CtmDeleted THEN [st EXCEPT !.thrown = TRUE]
    ELSE LET k == CTM_keyCallback(e.item)
             ov == st.props[k]
             mv == CTM_map(e.item)
         IN  [st EXCEPT !.props[k] = IF isAdd THEN mv ELSE @,
                        !.ev = <<[event |-> "change",
                                  change |-> [x \in {k} |-> ov]]>>]

\* _onAddRemove(isAdd, e)
CTM_onAddRemove(st, isAdd, e) ==
    IF st.collection = "null" THEN st
    ELSE IF st.props = CtmDeleted THEN [st EXCEPT !.thrown = TRUE]
    ELSE LET k == CTM_keyCallback(e.item)
             ov == st.props[k]
             mv == CTM_map(e.item)
         IN  [st EXCEPT !.props[k] = IF isAdd THEN mv ELSE None,
                        !.ev = <<[event |-> "change",
                                  change |-> [x \in {k} |-> ov]]>>]

\* dispose()
CTM_dispose(st) ==
    IF st.collection = "null" THEN st
    ELSE [st EXCEPT !.listening = FALSE, !.props = CtmDeleted,
                    !.collection = "null"]

\* new CollectionToModel(collection, keyCallback, opt)
CTM_constructor(items) ==
    CTM_setCollection([collection |-> "null", listening |-> FALSE,
                       props |-> [k \in Values |-> None], ev |-> <<>>,
                       thrown |-> FALSE], "C", items, TRUE)

CtmInit ==
    /\ NoWrapper
    /\ NoPatchDiff
    /\ NoMtc
    /\ NoIndexOfCall /\ NoModifyModel /\ NoModelWrapper
    /\ NoJoinedCollection
    /\ modelA = <<>> /\ valRank = <<>> /\ valHidden = <<>> /\ bus = <<>>
    /\ ops = 0
    /\ colCompare = FALSE
    /\ \E data \in ColData :
          \E sm \in {COL_constructor([compare |-> colCompare, list |-> <<>>,
                                      map |-> {}, idx |-> -1, thrown |-> FALSE,
                                      ev |-> <<>>], data)} :
              /\ colList = sm.list
              /\ colMap = sm.map
    /\ ctmMap \in BOOLEAN
    /\ \E st \in {CTM_constructor(colList)} :
          /\ ctmCollection = st.collection
          /\ ctmListening = st.listening
          /\ ctmProps = st.props
    /\ mirror = <<>> /\ mirrorOk = TRUE
    /\ emitted = <<>>
    /\ lastOp = "init"

\* what a step leaves of the CollectionToModel
CtmCommit(st, op) ==
    /\ ctmCollection' = st.collection
    /\ ctmListening' = st.listening
    /\ ctmProps' = st.props
    /\ emitted' = st.ev
    /\ lastOp' = IF st.thrown THEN "throw" ELSE op
    /\ UNCHANGED <<ctmMap, colCompare, modelA, valRank, valHidden, mirror,
                   mirrorOk, mtcVars, pdVars, cwVars, ixVars, mmVars, mwVars,
                   jcVars>>

\* a call on the wrapped collection: its events go to the listeners
CtmSource(sm, op) ==
    /\ colList' = sm.list
    /\ colMap' = sm.map
    /\ bus' = IF ctmListening
              THEN bus \o [i \in 1..Len(sm.ev) |->
                              [type |-> sm.ev[i].event, item |-> sm.ev[i].item,
                               idx |-> sm.ev[i].idx]]
              ELSE bus
    /\ ops' = ops + 1
    /\ CtmCommit(CtmState, IF sm.thrown THEN "sourceThrow" ELSE op)

\* collection.add(item, idx)
CtmSourceAdd ==
    /\ ops < MaxOps
    /\ \E item \in Values, idx \in {NoIndex, 0} :
          CtmSource(COL_addItem(ColState, item, TRUE, idx), "add")

\* collection.remove(id)
CtmSourceRemove ==
    /\ ops < MaxOps
    /\ \E id \in Values : CtmSource(COL_remove(ColState, id), "remove")

\* the event bus calls this._onAdd or this._onRemove with the oldest event,
\* or finds that the callback is no longer registered
CtmDeliver ==
    /\ bus # <<>>
    /\ bus' = Tail(bus)
    /\ \/ /\ ctmListening
          /\ CtmCommit(CTM_onAddRemove(CtmState, Head(bus).type = "add", Head(bus)),
                       IF Head(bus).type = "add" THEN "onAdd" ELSE "onRemove")
       \/ /\ ~ctmListening
          /\ CtmCommit(CtmState, "dropped")
    /\ UNCHANGED <<colList, colMap, ops>>

\* wrapper.dispose()
CtmDispose ==
    /\ ops < MaxOps
    /\ CtmCommit(CTM_dispose(CtmState), "dispose")
    /\ ops' = ops + 1
    /\ UNCHANGED <<colList, colMap, bus>>

CtmNext ==
    \/ CtmSourceAdd
    \/ CtmSourceRemove
    \/ CtmDeliver
    \/ CtmDispose

SpecCtm == CtmInit /\ [][CtmNext]_vars

\* key -> map(item) for the items of the collection
CtmExpected ==
    [k \in Values |->
        IF \E i \in 1..Len(colList) : CTM_keyCallback(colList[i]) = k
        THEN CTM_map(k) ELSE None]

\* C32: once the add and remove notifications of the wrapped collection have
\* been handled by a wrapper that was not disposed, props maps keyCallback(item) to map(item) for exactly the
\* items in the collection; and each notification handled emits one change
\* event whose only entry is the value props had for the key of the item
\* (undefined for a new key), and sets or deletes that key.
C32_PropsFollowCollection ==
    /\ []((ctmCollection = "C" /\ bus = <<>>) => ctmProps = CtmExpected)
    /\ [][lastOp' \in {"onAdd", "onRemove"}
            => LET k == CTM_keyCallback(Head(bus).item)
               IN  /\ emitted' = <<[event |-> "change",
                                    change |-> [x \in {k} |-> ctmProps[k]]]>>
                   /\ ctmProps' =
                        [ctmProps EXCEPT
                            ![k] = IF lastOp' = "onAdd"
                                   THEN CTM_map(Head(bus).item) ELSE None]
                   /\ (lastOp' = "onAdd" /\ ctmProps[k] = None
                         => emitted'[1].change[k] = None)]_vars

\* a remove notification has been handled after an add notification: the
\* change event carries the value the key had, and props is complete
C32_Witness ==
    /\ lastOp = "onRemove"
    /\ bus = <<>>
    /\ ctmCollection = "C"
    /\ Len(emitted) = 1
    /\ \E k \in DOMAIN emitted[1].change : emitted[1].change[k] # None
    /\ ctmProps = CtmExpected
    /\ Len(colList) >= 2

(***************************************************************************)
(* JoinedCollection (src/src/JoinedCollection.js).  A sub-collection is    *)
(* its items and whether it is a Collection (it has on and off) or a plain *)
(* array; this._collections is jcInput, or null when jcPc is "null".       *)
(***************************************************************************)
\* the item arrays of the sub-collections
JcArrays == {<<>>, <<1>>, <<2, NumVals>>}

\* the sub-collections: Collections (on) and arrays
JcSubCollections == {[on |-> b, items |-> q] : b \in BOOLEAN, q \in JcArrays}

\* the lists of sub-collections handed to the JoinedCollection
JcInputs == SeqsUpTo(JcSubCollections, 2)

\* what a read returns before any read was made
JcNoResult == [op |-> "none", idx |-> 0, value |-> <<>>]

\* new JoinedCollection(collections): this._collection is never assigned,
\* so the body of if (this._collection) is not run
JC_constructor(collections) ==
    LET _collection == None
    IN  IF _collection # None
        THEN [i \in 1..Len(collections) |-> [col |-> collections[i].items]]
        ELSE <<>>

RECURSIVE JC_length(_)
\* get length()
JC_length(subs) ==
    IF subs = <<>> THEN 0 ELSE Len(Head(subs).col) + JC_length(Tail(subs))

RECURSIVE JC_atIndexFrom(_, _, _)
\* the loop of atIndex(idx) over this._subs, i items before the first of subs
JC_atIndexFrom(subs, idx, i) ==
    IF subs = <<>> THEN None
    ELSE LET l == Len(Head(subs).col)
         IN  IF i + l > idx THEN Head(subs).col[idx - i + 1]
             ELSE JC_atIndexFrom(Tail(subs), idx, i + l)

\* atIndex(idx)
JC_atIndex(hasCollections, subs, idx) ==
    IF hasCollections /\ idx >= 0 THEN JC_atIndexFrom(subs, idx, 0) ELSE None

RECURSIVE JC_iterateFrom(_)
JC_iterateFrom(subs) ==
    IF subs = <<>> THEN <<>> ELSE Head(subs).col \o JC_iterateFrom(Tail(subs))

\* [Symbol.iterator](): the items next() returns until it is done
JC_iterate(hasCollections, subs) ==
    IF hasCollections THEN JC_iterateFrom(subs) ELSE <<>>

\* _getIdxStart(idx)
JC_getIdxStart(subs, idx) == JC_length(SubSeq(subs, 1, idx))

RECURSIVE JC_onMainAddLoop(_, _, _)
\* setCollections: for (let c of this._collections) this._onMainAdd({ item:
\* c, idx: i }); _addSubListeners(c) calls c.on, which an array does not have
JC_onMainAddLoop(st, collections, i) ==
    IF i >= Len(collections) THEN st
    ELSE LET c == collections[i + 1]
         IN  IF ~c.on THEN [st EXCEPT !.thrown = TRUE]
             ELSE LET subs == SpliceIn(st.subs, i, [col |-> c.items])
                      start == JC_getIdxStart(subs, i)
                  IN  JC_onMainAddLoop(
                          [st EXCEPT
                              !.subs = subs,
                              !.ev = @ \o [j \in 1..Len(c.items) |->
                                              [event |-> "add",
                                               item |-> c.items[j],
                                               idx |-> start + j - 1]]],
                          collections, i + 1)

\* setCollections(collections), collections a new list or null (isNull);
\* _onMainRemove reads this._sub, which is never assigned
JC_setCollections(st, collections, isNull) ==
    IF isNull /\ st.isNull THEN st
    ELSE IF ~st.isNull /\ st.collections # <<>> THEN [st EXCEPT !.thrown = TRUE]
    ELSE IF isNull THEN [st EXCEPT !.isNull = TRUE, !.collections = <<>>]
    ELSE JC_onMainAddLoop([st EXCEPT !.isNull = FALSE,
                                     !.collections = collections],
                          collections, 0)

\* dispose(); _setListeners(false) reads this._collections[cb] when
\* this._collections is null
JC_dispose(st) ==
    IF st.isNull THEN [st EXCEPT !.subs = <<>>, !.thrown = TRUE]
    ELSE [st EXCEPT !.subs = <<>>, !.isNull = TRUE, !.collections = <<>>]

JcState ==
    [collections |-> jcInput, isNull |-> jcPc = "null", subs |-> jcSubs,
     ev |-> <<>>, thrown |-> FALSE]

JcInit ==
    /\ NoWrapper
    /\ NoPatchDiff
    /\ NoMtc
    /\ NoIndexOfCall /\ NoModifyModel /\ NoModelWrapper
    /\ NoCollection /\ NoCollectionToModel
    /\ modelA = <<>> /\ valRank = <<>> /\ valHidden = <<>> /\ bus = <<>>
    /\ ops = 0
    /\ jcInput \in JcInputs
    /\ jcSubs = JC_constructor(jcInput)
    /\ jcPc = "constructed"
    /\ jcResult = JcNoResult
    /\ mirror = <<>> /\ mirrorOk = TRUE
    /\ emitted = <<>>
    /\ lastOp = "init"

JcOthers ==
    UNCHANGED <<modelA, valRank, valHidden, bus, mtcVars, pdVars, cwVars,
                ixVars, mmVars, mwVars, colVars, ctmVars, mirror, mirrorOk>>

\* a read of the joined collection
JcRead(op, idx, value) ==
    /\ jcResult' = [op |-> op, idx |-> idx, value |-> value]
    /\ emitted' = <<>>
    /\ UNCHANGED <<jcInput, jcSubs, jcPc, ops>>
    /\ JcOthers

\* joined.length
JcLength ==
    /\ lastOp' = "length"
    /\ JcRead("length", 0, JC_length(jcSubs))

\* joined.atIndex(idx)
JcAtIndex ==
    /\ lastOp' = "atIndex"
    /\ \E idx \in -1..(2 * MaxJcLen) :
          JcRead("atIndex", idx, JC_atIndex(jcPc # "null", jcSubs, idx))

\* [...joined]
JcIterate ==
    /\ lastOp' = "iterate"
    /\ JcRead("iterate", 0, JC_iterate(jcPc # "null", jcSubs))

\* what a call that changes the instance leaves
JcCommit(st, pc) ==
    /\ jcInput' = st.collections
    /\ jcSubs' = st.subs
    /\ jcPc' = IF st.isNull THEN "null"
               ELSE IF st = [JcState EXCEPT !.thrown = TRUE] THEN jcPc ELSE pc
    /\ jcResult' = JcNoResult
    /\ emitted' = st.ev
    /\ lastOp' = IF st.thrown THEN "throw" ELSE pc
    /\ ops' = ops + 1
    /\ JcOthers

\* joined.setCollections(collections)
JcSetCollections ==
    /\ ops < MaxOps
    /\ \/ \E c \in JcInputs : JcCommit(JC_setCollections(JcState, c, FALSE), "set")
       \/ JcCommit(JC_setCollections(JcState, <<>>, TRUE), "set")

\* joined.dispose()
JcDispose ==
    /\ ops < MaxOps
    /\ JcCommit(JC_dispose(JcState), "null")

JcNext == JcLength \/ JcAtIndex \/ JcIterate \/ JcSetCollections \/ JcDispose

SpecJoined == JcInit /\ [][JcNext]_vars

\* the items of the sub-collections one after the other
JcConcat == JC_iterateFrom([i \in 1..Len(jcInput) |-> [col |-> jcInput[i].items]])

\* C34: a JoinedCollection constructed from a list of collections or arrays
\* exposes their concatenation: length is the sum of their lengths, atIndex
\* returns the i-th item of the concatenation (undefined out of range), and
\* iteration yields the items of the first, then of the second, and so on.
C34_Concatenation ==
    jcPc = "constructed" =>
        /\ jcResult.op = "length" => jcResult.value = Len(JcConcat)
        /\ jcResult.op = "atIndex" =>
              jcResult.value = IF jcResult.idx >= 0 /\ jcResult.idx < Len(JcConcat)
                               THEN JcConcat[jcResult.idx + 1] ELSE None
        /\ jcResult.op = "iterate" => jcResult.value = JcConcat

=============================================================================
